---- MODULE Spec2Model ----
(***************************************************************************)
(* A state machine of the block-diagram editor in src/py_pipelingtool.py:  *)
(* the Block / FIFOConnection object graph owned by HardwareDesignGUI and  *)
(* the event handlers that change it.                                      *)
(*                                                                         *)
(* Objects.  A Block object is a block id in BlockIds; blk[b] holds its    *)
(* fields.  A block id is "live" while some reference to the object exists *)
(* (the block list, connect_start_block, a connection's endpoints); ids of *)
(* unreferenced objects are recycled.  A FIFOConnection object is always   *)
(* referenced from self.connections, so a connection is identified by its  *)
(* position in that list; every stored reference to a connection (a        *)
(* block's connections list, selected_connection) is such a position and   *)
(* is renumbered when an earlier element is removed from the list.         *)
(*                                                                         *)
(* The tk canvas items are not part of this state machine, and neither    *)
(* are the fields that only steer rendering (the selected flag of a block  *)
(* or connection, dragging, resizing): the result of hit-testing a mouse   *)
(* position (which block or connection is under the pointer) is an input   *)
(* of the handlers, and so is the answer given to every                    *)
(* messagebox.askyesno and file dialog.  What FIFOConnection.draw stores   *)
(* is kept through the values it read (the drawn field of a connection).   *)
(***************************************************************************)
EXTENDS Integers, Sequences, FiniteSets, TLC

VARIABLES
    gui,   \* the HardwareDesignGUI object and the objects it reaches:
           \*   blocks               self.blocks: sequence of block ids
           \*   blk                  the Block objects: block id -> fields
           \*   connections          self.connections: sequence of FIFOConnection records
           \*   selected_block       block id, or NoBlock
           \*   selected_connection  position in connections, or NoConn
           \*   connecting           self.connecting
           \*   connect_start_block  block id, or NoBlock
           \*   temp_line_id         self.temp_line_id is set
    last,    \* history: what the last step did
    deleted, \* history: deletions confirmed since the design was loaded
    file     \* the parsed content of the file last written or read

vars == <<gui, last, deleted, file>>

----------------------------------------------------------------------------
(* Bounds of the model and constants of the program *)

MaxBlockIds == 3
MaxConns == 3
MaxDeletes == 1
MaxChanConns == 4
MaxChannel == 1
MaxUIConns == 1

MaxConnectionsPerBlock == 15
DefaultDepth == 16
DefaultWidth == 32
DefaultBlockWidth == 150
DefaultBlockHeight == 80

BlockIds == 1..MaxBlockIds
NoBlock == 0
NoConn == 0

----------------------------------------------------------------------------
(* Sequence helpers (Python list operations) *)

Range(s) == {s[i] : i \in DOMAIN s}

\* list.remove(x): drops the first occurrence of x
RemoveFirst(s, x) ==
    IF x \notin Range(s) THEN s
    ELSE LET i == CHOOSE k \in DOMAIN s : s[k] = x /\ \A j \in 1..(k-1) : s[j] # x
         IN  SubSeq(s, 1, i-1) \o SubSeq(s, i+1, Len(s))

RemoveAt(s, i) == SubSeq(s, 1, i-1) \o SubSeq(s, i+1, Len(s))

\* a stored position after the element at position p left self.connections
Shift(q, p) == IF q > p THEN q - 1 ELSE q

ShiftSeq(s, p) == [i \in DOMAIN s |-> Shift(s[i], p)]

\* str(n) for n >= 0
Digit(d) ==
    CASE d = 0 -> "0" [] d = 1 -> "1" [] d = 2 -> "2" [] d = 3 -> "3"
      [] d = 4 -> "4" [] d = 5 -> "5" [] d = 6 -> "6" [] d = 7 -> "7"
      [] d = 8 -> "8" [] OTHER -> "9"

RECURSIVE Str(_)
Str(n) == IF n < 10 THEN Digit(n) ELSE Str(n \div 10) \o Digit(n % 10)

----------------------------------------------------------------------------
(* The object graph as one record, so that handlers compose *)

FreeBlock ==
    [name |-> "", x |-> 0, y |-> 0, width |-> 0, height |-> 0, number |-> 0,
     connections |-> <<>>, selected |-> FALSE]

\* number = None
NoNumber == 0

\* block objects some reference still reaches
Referenced(m) ==
    Range(m.blocks)
      \cup ({m.connect_start_block, m.selected_block} \ {NoBlock})
      \cup {m.connections[i].source_block : i \in DOMAIN m.connections}
      \cup {m.connections[i].target_block : i \in DOMAIN m.connections}

\* unreferenced Block objects are garbage: their ids become free again
Collect(m) ==
    [m EXCEPT !.blk = [b \in BlockIds |->
                         IF b \in Referenced(m) THEN m.blk[b] ELSE FreeBlock]]


FreeIds(m) == BlockIds \ Referenced(m)

NewId(m) == CHOOSE b \in FreeIds(m) : \A c \in FreeIds(m) : b <= c

\* op: the operation; ok: its result; a: the block it deleted, or the
\* position the connection it deleted had; n: the number of connections it
\* removed or added
Did(op, ok, a, n) == [op |-> op, ok |-> ok, a |-> a, n |-> n]

NoOp == Did("none", TRUE, 0, 0)

----------------------------------------------------------------------------
(* class Block *)

\* Block.__init__ followed by self.blocks.append(block)
NewBlock(m, x, y, width, height, name, number) ==
    LET b == NewId(m)
    IN  [m EXCEPT !.blk[b] = [name |-> name, x |-> x, y |-> y,
                              width |-> width, height |-> height,
                              number |-> number, connections |-> <<>>,
                              selected |-> FALSE],
                  !.blocks = Append(@, b)]

RECURSIVE FirstFree(_, _)
FirstFree(used, channel_num) ==
    IF channel_num \in used THEN FirstFree(used, channel_num + 1)
    ELSE channel_num

\* a variant that takes the channel numbers of every connection of the list,
\* whatever the role of the block in it
get_next_available_src_channel_AnyRole(m, b) ==
    LET l == m.blk[b].connections
        used_channels == {m.connections[l[i]].src_ch_num : i \in DOMAIN l}
    IN  FirstFree(used_channels, 0)

get_next_available_src_channel(m, b) ==
    LET l == m.blk[b].connections
        used_channels == {m.connections[l[i]].src_ch_num :
                            i \in {j \in DOMAIN l :
                                     m.connections[l[j]].source_block = b}}
    IN  FirstFree(used_channels, 0)

get_next_available_dst_channel(m, b) ==
    LET l == m.blk[b].connections
        used_channels == {m.connections[l[i]].dst_ch_num :
                            i \in {j \in DOMAIN l :
                                     m.connections[l[j]].target_block = b}}
    IN  FirstFree(used_channels, 0)

\* a variant that lets one connection more in
can_add_connection_OneMore(m, b) ==
    Len(m.blk[b].connections) <= MaxConnectionsPerBlock

can_add_connection(m, b) == Len(m.blk[b].connections) < MaxConnectionsPerBlock

\* Block.contains_point: the borders belong to the block
Block_contains_point(m, b, x, y) ==
    /\ m.blk[b].x <= x
    /\ x <= m.blk[b].x + m.blk[b].width
    /\ m.blk[b].y <= y
    /\ y <= m.blk[b].y + m.blk[b].height

----------------------------------------------------------------------------
(* class FIFOConnection *)

\* x, y, width and height of block b
Geometry(m, b) ==
    [x |-> m.blk[b].x, y |-> m.blk[b].y, width |-> m.blk[b].width,
     height |-> m.blk[b].height]

\* the drawn field of a connection not drawn yet (curve_points = [])
NotDrawn ==
    [connection_index |-> 0, total_connections |-> 0,
     source |-> [x |-> 0, y |-> 0, width |-> 0, height |-> 0],
     target |-> [x |-> 0, y |-> 0, width |-> 0, height |-> 0]]

\* FIFOConnection.draw for the connection at position p.  What draw stores
\* (the anchors it draws between and self.curve_points) is a function of
\* the values it reads: the index and the total it counts in the list of the
\* source block, and the geometry of the two blocks.  The drawn field keeps
\* these values as draw last read them; get_connection_point and
\* curve_points compute the anchors and the path from them.
draw(m, p) ==
    LET self == m.connections[p]
        l == m.blk[self.source_block].connections
        connections_between ==
          SelectSeq(l, LAMBDA q :
            \/ /\ m.connections[q].source_block = self.source_block
               /\ m.connections[q].target_block = self.target_block
            \/ /\ m.connections[q].source_block = self.target_block
               /\ m.connections[q].target_block = self.source_block)
        total_connections == Len(connections_between)
        connection_index ==
          IF p \in Range(connections_between)
          THEN (CHOOSE i \in DOMAIN connections_between :
                  /\ connections_between[i] = p
                  /\ \A j \in 1..(i-1) : connections_between[j] # p) - 1
          ELSE 0
    IN  [m EXCEPT !.connections[p].drawn =
           [connection_index |-> connection_index,
            total_connections |-> total_connections,
            source |-> Geometry(m, self.source_block),
            target |-> Geometry(m, self.target_block)]]

\* The coordinates draw computes are fractions: halves of sides, 0.6 of a
\* side, a range divided by total - 1, Bezier weights in 400ths.  They are
\* kept exact as integers: an anchor coordinate times AnchorScale(total), a
\* path coordinate times PathScale(total).
AnchorScale(total_connections) ==
    IF total_connections > 1 THEN 10 * (total_connections - 1) ELSE 10

PathScale(total_connections) == 800 * AnchorScale(total_connections)

Abs(v) == IF v < 0 THEN -v ELSE v

\* a variant whose window is min(side, total_connections * 10)
get_connection_point_FullSide(self, other_block, connection_index, total_connections) ==
    LET U == AnchorScale(total_connections)
        horizontal == \/ other_block.x < self.x
                      \/ other_block.x > self.x + self.width
        x == IF other_block.x < self.x THEN U * self.x
             ELSE IF other_block.x > self.x + self.width
             THEN U * (self.x + self.width)
             ELSE (U \div 2) * (2 * self.x + self.width)
        y == IF horizontal THEN (U \div 2) * (2 * self.y + self.height)
             ELSE IF other_block.y < self.y THEN U * self.y
             ELSE U * (self.y + self.height)
        side == IF horizontal THEN self.height ELSE self.width
        \* five times offset_range = min(side * 0.6, total_connections * 10)
        range5 == IF 5 * side < 50 * total_connections
                  THEN 5 * side ELSE 50 * total_connections
        \* offset = -offset_range/2 + connection_index * step, times U
        offset == range5 * (2 * connection_index - (total_connections - 1))
    IN  IF total_connections > 1
        THEN IF horizontal THEN <<x, y + offset>> ELSE <<x + offset, y>>
        ELSE <<x, y>>

\* Block.get_connection_point of a block of geometry self towards a block
\* of geometry other_block: <<x, y>> times AnchorScale(total_connections)
get_connection_point(self, other_block, connection_index, total_connections) ==
    LET U == AnchorScale(total_connections)
        horizontal == \/ other_block.x < self.x
                      \/ other_block.x > self.x + self.width
        x == IF other_block.x < self.x THEN U * self.x
             ELSE IF other_block.x > self.x + self.width
             THEN U * (self.x + self.width)
             ELSE (U \div 2) * (2 * self.x + self.width)
        y == IF horizontal THEN (U \div 2) * (2 * self.y + self.height)
             ELSE IF other_block.y < self.y THEN U * self.y
             ELSE U * (self.y + self.height)
        side == IF horizontal THEN self.height ELSE self.width
        \* five times offset_range = min(side * 0.6, total_connections * 10)
        range5 == IF 3 * side < 50 * total_connections
                  THEN 3 * side ELSE 50 * total_connections
        \* offset = -offset_range/2 + connection_index * step, times U
        offset == range5 * (2 * connection_index - (total_connections - 1))
    IN  IF total_connections > 1
        THEN IF horizontal THEN <<x, y + offset>> ELSE <<x + offset, y>>
        ELSE <<x, y>>

\* a variant that bends every curve to the same side
curve_points_OneSide(drawn) ==
    LET k == drawn.connection_index
        n == drawn.total_connections
        U == AnchorScale(n)
        start == get_connection_point(drawn.source, drawn.target, k, n)
        end == get_connection_point(drawn.target, drawn.source, k, n)
    IN  IF n > 1 /\ k > 0
        THEN LET curve_offset == 30 + k * 15
                 dx == end[1] - start[1]
                 dy == end[2] - start[2]
                 curve2 ==
                   IF Abs(dx) > Abs(dy)
                   THEN <<start[1] + end[1],
                          start[2] + end[2] + 2 * U * curve_offset>>
                   ELSE <<start[1] + end[1] + 2 * U * curve_offset,
                          start[2] + end[2]>>
             IN  [j \in 1..42 |->
                    LET i == (j - 1) \div 2
                        c == IF j % 2 = 1 THEN 1 ELSE 2
                    IN  (20 - i) * (20 - i) * 2 * start[c]
                          + 2 * (20 - i) * i * curve2[c]
                          + i * i * 2 * end[c]]
        ELSE <<800 * start[1], 800 * start[2], 800 * end[1], 800 * end[2]>>

\* self.curve_points as draw stores it, from the values draw read: the
\* list x0, y0, x1, y1, ... times PathScale(total_connections)
curve_points(drawn) ==
    LET k == drawn.connection_index
        n == drawn.total_connections
        U == AnchorScale(n)
        start == get_connection_point(drawn.source, drawn.target, k, n)
        end == get_connection_point(drawn.target, drawn.source, k, n)
    IN  IF n > 1 /\ k > 0
        THEN LET curve_offset == 30 + k * 15
                 dx == end[1] - start[1]
                 dy == end[2] - start[2]
                 signed == IF k % 2 = 1 THEN curve_offset ELSE -curve_offset
                 \* twice the control point (curve_x, curve_y), times U
                 curve2 ==
                   IF Abs(dx) > Abs(dy)
                   THEN <<start[1] + end[1],
                          start[2] + end[2] + 2 * U * signed>>
                   ELSE <<start[1] + end[1] + 2 * U * signed,
                          start[2] + end[2]>>
             IN  \* (1-t)^2 P0 + 2(1-t)t P1 + t^2 P2 for t = i/20
                 [j \in 1..42 |->
                    LET i == (j - 1) \div 2
                        c == IF j % 2 = 1 THEN 1 ELSE 2
                    IN  (20 - i) * (20 - i) * 2 * start[c]
                          + 2 * (20 - i) * i * curve2[c]
                          + i * i * 2 * end[c]]
        ELSE <<800 * start[1], 800 * start[2], 800 * end[1], 800 * end[2]>>

\* a variant that puts every label of a curve on the positive side
label_position_OneSide(drawn) ==
    LET k == drawn.connection_index
        n == drawn.total_connections
        U == AnchorScale(n)
        start == get_connection_point(drawn.source, drawn.target, k, n)
        end == get_connection_point(drawn.target, drawn.source, k, n)
        dx == end[1] - start[1]
        dy == end[2] - start[2]
        label2 == <<start[1] + end[1], start[2] + end[2]>>
    IN  IF n > 1 /\ k > 0
        THEN LET label_offset == 20 + k * 8
                 signed == label_offset
             IN  IF Abs(dx) > Abs(dy)
                 THEN <<label2[1], label2[2] + 2 * U * signed>>
                 ELSE <<label2[1] + 2 * U * signed, label2[2]>>
        ELSE IF Abs(dx) > Abs(dy)
        THEN <<label2[1], label2[2] - 2 * U * 15>>
        ELSE <<label2[1] + 2 * U * 15, label2[2]>>

\* where draw puts the label: (label_x, label_y) times
\* 2 * AnchorScale(total_connections).  When the label is placed dx and dy
\* have been divided by the length of the line (if it is not 0), which
\* leaves the comparison of abs(dx) with abs(dy) as it was.
label_position(drawn) ==
    LET k == drawn.connection_index
        n == drawn.total_connections
        U == AnchorScale(n)
        start == get_connection_point(drawn.source, drawn.target, k, n)
        end == get_connection_point(drawn.target, drawn.source, k, n)
        dx == end[1] - start[1]
        dy == end[2] - start[2]
        label2 == <<start[1] + end[1], start[2] + end[2]>>
    IN  IF n > 1 /\ k > 0
        THEN LET label_offset == 20 + k * 8
                 signed == IF k % 2 = 1 THEN label_offset ELSE -label_offset
             IN  IF Abs(dx) > Abs(dy)
                 THEN <<label2[1], label2[2] + 2 * U * signed>>
                 ELSE <<label2[1] + 2 * U * signed, label2[2]>>
        ELSE IF Abs(dx) > Abs(dy)
        THEN <<label2[1], label2[2] - 2 * U * 15>>
        ELSE <<label2[1] + 2 * U * 15, label2[2]>>

\* draw for each connection whose position is in S, in list order (a draw
\* changes nothing that another draw reads)
RECURSIVE DrawEach(_, _)
DrawEach(m, S) ==
    IF S = {} THEN m
    ELSE LET p == CHOOSE i \in S : \A j \in S : i <= j
         IN  DrawEach(draw(m, p), S \ {p})

\* The distances of contains_point are products of path coordinates, too
\* large for a machine integer: they are computed on integers of any size,
\* [neg, mag] with mag the digits in base BigBase, lowest first, no leading 0.
BigBase == 10000

RECURSIVE Digits(_)
Digits(n) == IF n = 0 THEN <<>> ELSE <<n % BigBase>> \o Digits(n \div BigBase)

RECURSIVE Trim(_)
Trim(a) ==
    IF a # <<>> /\ a[Len(a)] = 0 THEN Trim(SubSeq(a, 1, Len(a) - 1)) ELSE a

RECURSIVE MagAdd(_, _, _)
MagAdd(a, b, carry) ==
    IF a = <<>> /\ b = <<>> THEN Digits(carry)
    ELSE LET v == (IF a = <<>> THEN 0 ELSE Head(a))
                    + (IF b = <<>> THEN 0 ELSE Head(b)) + carry
         IN  <<v % BigBase>> \o MagAdd(IF a = <<>> THEN <<>> ELSE Tail(a),
                                       IF b = <<>> THEN <<>> ELSE Tail(b),
                                       v \div BigBase)

\* a - b for a >= b (digits not trimmed)
RECURSIVE MagSub(_, _, _)
MagSub(a, b, borrow) ==
    IF a = <<>> THEN <<>>
    ELSE LET v == Head(a) - (IF b = <<>> THEN 0 ELSE Head(b)) - borrow
         IN  <<IF v < 0 THEN v + BigBase ELSE v>>
               \o MagSub(Tail(a), IF b = <<>> THEN <<>> ELSE Tail(b),
                         IF v < 0 THEN 1 ELSE 0)

RECURSIVE MagMulDigit(_, _, _)
MagMulDigit(a, d, carry) ==
    IF a = <<>> THEN Digits(carry)
    ELSE LET v == Head(a) * d + carry
         IN  <<v % BigBase>> \o MagMulDigit(Tail(a), d, v \div BigBase)

RECURSIVE MagMul(_, _)
MagMul(a, b) ==
    IF a = <<>> \/ b = <<>> THEN <<>>
    ELSE LET rest == MagMul(a, Tail(b))
         IN  MagAdd(Trim(MagMulDigit(a, Head(b), 0)),
                    IF rest = <<>> THEN <<>> ELSE <<0>> \o rest, 0)

RECURSIVE MagLess(_, _)
MagLess(a, b) ==
    IF Len(a) # Len(b) THEN Len(a) < Len(b)
    ELSE IF a = <<>> THEN FALSE
    ELSE IF a[Len(a)] # b[Len(b)] THEN a[Len(a)] < b[Len(b)]
    ELSE MagLess(SubSeq(a, 1, Len(a) - 1), SubSeq(b, 1, Len(b) - 1))

Big(n) == [neg |-> n < 0, mag |-> Digits(IF n < 0 THEN -n ELSE n)]

BigNeg(a) == [neg |-> a.mag # <<>> /\ ~a.neg, mag |-> a.mag]

BigAdd(a, b) ==
    IF a.neg = b.neg THEN [neg |-> a.neg, mag |-> MagAdd(a.mag, b.mag, 0)]
    ELSE IF MagLess(a.mag, b.mag)
    THEN [neg |-> b.neg, mag |-> Trim(MagSub(b.mag, a.mag, 0))]
    ELSE LET d == Trim(MagSub(a.mag, b.mag, 0))
         IN  [neg |-> d # <<>> /\ a.neg, mag |-> d]

BigSub(a, b) == BigAdd(a, BigNeg(b))

BigMul(a, b) ==
    LET d == MagMul(a.mag, b.mag)
    IN  [neg |-> d # <<>> /\ a.neg # b.neg, mag |-> d]

BigLess(a, b) == BigSub(a, b).neg

BigLeq(a, b) == ~BigLess(b, a)

\* a variant that measures the distance to the whole line through the two
\* points, not to the segment between them
point_to_line_distance_within_Unclamped(px, py, x1, y1, x2, y2, tolerance) ==
    LET A == Big(px - x1)
        B == Big(py - y1)
        C == Big(x2 - x1)
        D == Big(y2 - y1)
        dot == BigAdd(BigMul(A, C), BigMul(B, D))
        len_sq == BigAdd(BigMul(C, C), BigMul(D, D))
        tol_sq == BigMul(Big(tolerance), Big(tolerance))
        Sq(dx, dy) == BigAdd(BigMul(dx, dx), BigMul(dy, dy))
    IN  IF len_sq.mag = <<>>
        THEN BigLeq(Sq(A, B), tol_sq)
        ELSE BigLeq(Sq(BigSub(BigMul(A, len_sq), BigMul(dot, C)),
                       BigSub(BigMul(B, len_sq), BigMul(dot, D))),
                    BigMul(tol_sq, BigMul(len_sq, len_sq)))

\* FIFOConnection._point_to_line_distance(px, py, x1, y1, x2, y2) <= tolerance,
\* all seven numbers on one scale.  The square root is not taken: the squared
\* distance is compared with the squared tolerance, and the division by len_sq
\* is multiplied out.
point_to_line_distance_within(px, py, x1, y1, x2, y2, tolerance) ==
    LET A == Big(px - x1)
        B == Big(py - y1)
        C == Big(x2 - x1)
        D == Big(y2 - y1)
        dot == BigAdd(BigMul(A, C), BigMul(B, D))
        len_sq == BigAdd(BigMul(C, C), BigMul(D, D))
        tol_sq == BigMul(Big(tolerance), Big(tolerance))
        Sq(dx, dy) == BigAdd(BigMul(dx, dx), BigMul(dy, dy))
    IN  IF len_sq.mag = <<>>
        THEN BigLeq(Sq(A, B), tol_sq)
        ELSE IF dot.neg                          \* param < 0
        THEN BigLeq(Sq(A, B), tol_sq)
        ELSE IF BigLess(len_sq, dot)             \* param > 1
        THEN BigLeq(Sq(BigSub(A, C), BigSub(B, D)), tol_sq)
        ELSE \* dx = A - param * C and dy = B - param * D, times len_sq
             BigLeq(Sq(BigSub(BigMul(A, len_sq), BigMul(dot, C)),
                       BigSub(BigMul(B, len_sq), BigMul(dot, D))),
                    BigMul(tol_sq, BigMul(len_sq, len_sq)))

\* FIFOConnection.contains_point(x, y, tolerance) of a connection drawn as
\* drawn says; x, y and tolerance are whole numbers of canvas units.  The
\* loop over range(0, len(points) - 2, 2) returns True at the first segment
\* within the tolerance.
FIFOConnection_contains_point(drawn, x, y, tolerance) ==
    LET S == PathScale(drawn.total_connections)
        points == curve_points(drawn)
        near(i) == point_to_line_distance_within(
                       S * x, S * y, points[i + 1], points[i + 2],
                       points[i + 3], points[i + 4], S * tolerance)
    IN  IF drawn = NotDrawn THEN FALSE
        ELSE IF Len(points) = 4 THEN near(0)
        ELSE \E i \in {j \in 0..(Len(points) - 3) : j % 2 = 0} : near(i)

\* FIFOConnection.__init__ with both channel arguments given, followed by
\* self.connections.append(conn), which every caller performs right after
\* the constructor returns.  ord is history: see create_connection_between_blocks.
NewConnection(m, s, t, name, depth, width, src_ch_num, dst_ch_num) ==
    LET p == Len(m.connections) + 1
        c == [source_block |-> s, target_block |-> t, name |-> name,
              depth |-> depth, width |-> width,
              src_ch_num |-> src_ch_num, dst_ch_num |-> dst_ch_num,
              ord |-> 0, drawn |-> NotDrawn, selected |-> FALSE]
        m1 == [m EXCEPT !.blk[s].connections = Append(@, p)]
        m2 == [m1 EXCEPT !.blk[t].connections = Append(@, p)]
    IN  draw([m2 EXCEPT !.connections = Append(@, c)], p)

\* FIFOConnection.__init__ with src_ch_num = dst_ch_num = None: both channels
\* are auto-assigned before the connection is attached to the blocks
NewConnectionAuto(m, s, t, name) ==
    NewConnection(m, s, t, name, DefaultDepth, DefaultWidth,
                  get_next_available_src_channel(m, s),
                  get_next_available_dst_channel(m, t))

\* a variant that only sees the connections of the same direction
BetweenDirected(c, s, t) == c.source_block = s /\ c.target_block = t

\* the test "connects the same unordered block pair as (s, t)"
Between(c, s, t) ==
    \/ (c.source_block = s /\ c.target_block = t)
    \/ (c.source_block = t /\ c.target_block = s)

----------------------------------------------------------------------------
(* class HardwareDesignGUI: the operations on the diagram *)

PairPositions(m, s, t) ==
    {i \in DOMAIN m.connections : Between(m.connections[i], s, t)}

FifoName(existing_connections) ==
    IF existing_connections > 0
    THEN "FIFO_" \o Str(existing_connections + 1)
    ELSE "FIFO"

\* History kept in the ord field of a connection: k when the connection is
\* the k-th one made by create_connection_between_blocks for its block pair
\* since the pair last had no connection, with no deletion and no import for
\* that pair in between (one more than the ord of the one made before it);
\* 0 when that is not the case.
NextOrd(m, s, t) ==
    LET E == {i \in DOMAIN m.connections :
                {m.connections[i].source_block, m.connections[i].target_block}
                  = {s, t}}
    IN  IF E = {} THEN 1
        ELSE IF \A i \in E : m.connections[i].ord # 0
             THEN 1 + (CHOOSE k \in {m.connections[i].ord : i \in E} :
                         \A i \in E : m.connections[i].ord <= k)
             ELSE 0

\* a variant without the capacity check of the target block
create_connection_between_blocks_NoTargetCheck(m, source_block, target_block) ==
    IF /\ source_block # target_block
       /\ can_add_connection(m, source_block)
    THEN LET existing_connections ==
                 Cardinality(PairPositions(m, source_block, target_block))
             m1 == NewConnectionAuto(m, source_block, target_block,
                                     FifoName(existing_connections))
             p  == Len(m1.connections)
             m2 == [m1 EXCEPT !.connections[p].ord =
                                NextOrd(m, source_block, target_block)]
         IN  [m  |-> DrawEach(m2, PairPositions(m2, source_block,
                                                target_block)),
              ok |-> TRUE]
    ELSE [m |-> m, ok |-> FALSE]

\* a variant that leaves the drawing of the new connection to its constructor
create_connection_between_blocks_NoRedraw(m, source_block, target_block) ==
    IF /\ source_block # target_block
       /\ can_add_connection(m, source_block)
       /\ can_add_connection(m, target_block)
    THEN LET existing_connections ==
                 Cardinality(PairPositions(m, source_block, target_block))
             m1 == NewConnectionAuto(m, source_block, target_block,
                                     FifoName(existing_connections))
             p  == Len(m1.connections)
             m2 == [m1 EXCEPT !.connections[p].ord =
                                NextOrd(m, source_block, target_block)]
         IN  [m  |-> m2,
              ok |-> TRUE]
    ELSE [m |-> m, ok |-> FALSE]

\* returns the new object graph and the method's return value
create_connection_between_blocks(m, source_block, target_block) ==
    IF /\ source_block # target_block
       /\ can_add_connection(m, source_block)
       /\ can_add_connection(m, target_block)
    THEN LET existing_connections ==
                 Cardinality(PairPositions(m, source_block, target_block))
             m1 == NewConnectionAuto(m, source_block, target_block,
                                     FifoName(existing_connections))
             p  == Len(m1.connections)
             m2 == [m1 EXCEPT !.connections[p].ord =
                                NextOrd(m, source_block, target_block)]
         IN  [m  |-> DrawEach(m2, PairPositions(m2, source_block,
                                                target_block)),
              ok |-> TRUE]
    ELSE [m |-> m, ok |-> FALSE]

\* a variant that does not draw the remaining connections of the pair again
delete_connection_NoRedraw(m, p) ==
    LET c  == m.connections[p]
        s  == c.source_block
        t  == c.target_block
        m1 == [m EXCEPT !.blk[s].connections = RemoveFirst(@, p)]
        m2 == [m1 EXCEPT !.blk[t].connections = RemoveFirst(@, p)]
        rest == RemoveAt(m2.connections, p)
        m3 == [m2 EXCEPT
                 !.blk = [b \in BlockIds |->
                            [m2.blk[b] EXCEPT !.connections = ShiftSeq(@, p)]],
                 !.connections =
                     [i \in DOMAIN rest |->
                        IF {rest[i].source_block, rest[i].target_block}
                             = {s, t}
                        THEN [rest[i] EXCEPT !.ord = 0] ELSE rest[i]],
                 !.selected_connection =
                     IF m.selected_connection = p THEN NoConn
                     ELSE Shift(m.selected_connection, p)]
    IN  m3

\* a variant that leaves the connection in the list of its target block
delete_connection_SourceListOnly(m, p) ==
    LET c  == m.connections[p]
        s  == c.source_block
        t  == c.target_block
        m1 == [m EXCEPT !.blk[s].connections = RemoveFirst(@, p)]
        m2 == m1
        rest == RemoveAt(m2.connections, p)
        m3 == [m2 EXCEPT
                 !.blk = [b \in BlockIds |->
                            [m2.blk[b] EXCEPT !.connections = ShiftSeq(@, p)]],
                 !.connections =
                     [i \in DOMAIN rest |->
                        IF {rest[i].source_block, rest[i].target_block}
                             = {s, t}
                        THEN [rest[i] EXCEPT !.ord = 0] ELSE rest[i]],
                 !.selected_connection =
                     IF m.selected_connection = p THEN NoConn
                     ELSE Shift(m.selected_connection, p)]
    IN  DrawEach(m3, PairPositions(m3, s, t))

\* delete_connection once the confirmation (if any) was given
delete_connection(m, p) ==
    LET c  == m.connections[p]
        s  == c.source_block
        t  == c.target_block
        m1 == [m EXCEPT !.blk[s].connections = RemoveFirst(@, p)]
        m2 == [m1 EXCEPT !.blk[t].connections = RemoveFirst(@, p)]
        rest == RemoveAt(m2.connections, p)
        m3 == [m2 EXCEPT
                 !.blk = [b \in BlockIds |->
                            [m2.blk[b] EXCEPT !.connections = ShiftSeq(@, p)]],
                 !.connections =
                     [i \in DOMAIN rest |->
                        IF {rest[i].source_block, rest[i].target_block}
                             = {s, t}
                        THEN [rest[i] EXCEPT !.ord = 0] ELSE rest[i]],
                 !.selected_connection =
                     IF m.selected_connection = p THEN NoConn
                     ELSE Shift(m.selected_connection, p)]
    IN  DrawEach(m3, PairPositions(m3, s, t))

\* the loop of delete_block over connections_to_remove: the connections that
\* touch the block, in list order (the first remaining position that touches
\* b is found again after every removal)
RECURSIVE DeleteTouching(_, _)
DeleteTouching(m, b) ==
    LET touching == {i \in DOMAIN m.connections :
                       \/ m.connections[i].source_block = b
                       \/ m.connections[i].target_block = b}
    IN  IF touching = {} THEN m
        ELSE LET p == CHOOSE i \in touching : \A j \in touching : i <= j
             IN  DeleteTouching(delete_connection(m, p), b)

\* a variant whose connections_to_remove holds the outgoing connections only
RECURSIVE DeleteOutgoing(_, _)
DeleteOutgoing(m, b) ==
    LET outgoing == {i \in DOMAIN m.connections :
                       m.connections[i].source_block = b}
    IN  IF outgoing = {} THEN m
        ELSE LET p == CHOOSE i \in outgoing : \A j \in outgoing : i <= j
             IN  DeleteOutgoing(delete_connection(m, p), b)

delete_block_SourceOnly(m, b) ==
    LET m1 == DeleteOutgoing(m, b)
    IN  [m1 EXCEPT !.blocks = RemoveFirst(@, b),
                   !.selected_block = IF @ = b THEN NoBlock ELSE @]

\* a variant that leaves selected_block as it is
delete_block_SelectionKept(m, b) ==
    LET m1 == DeleteTouching(m, b)
    IN  [m1 EXCEPT !.blocks = RemoveFirst(@, b)]

\* delete_block once the confirmation was given (block is in self.blocks)
delete_block(m, b) ==
    LET m1 == DeleteTouching(m, b)
    IN  [m1 EXCEPT !.blocks = RemoveFirst(@, b),
                   !.selected_block = IF @ = b THEN NoBlock ELSE @]

clear_block_selection(m) ==
    IF m.selected_block # NoBlock
    THEN [m EXCEPT !.blk[m.selected_block].selected = FALSE,
                   !.selected_block = NoBlock]
    ELSE m

clear_connection_selection(m) ==
    IF m.selected_connection # NoConn
    THEN [draw([m EXCEPT !.connections[m.selected_connection].selected = FALSE],
               m.selected_connection)
            EXCEPT !.selected_connection = NoConn]
    ELSE m

clear_selections(m) == clear_connection_selection(clear_block_selection(m))

cancel_operations(m) ==
    [m EXCEPT !.connecting = FALSE, !.connect_start_block = NoBlock,
              !.temp_line_id = FALSE]

\* new_design once the confirmation (if any) was given
new_design(m) ==
    cancel_operations([m EXCEPT !.blocks = <<>>, !.connections = <<>>,
                                !.selected_block = NoBlock,
                                !.selected_connection = NoConn])

\* show_connection_info.reassign_all_channels, second loop: the connections
\* from position p on get fresh channels and are attached again, in list order
RECURSIVE Reattach(_, _)
Reattach(m, p) ==
    IF p > Len(m.connections) THEN m
    ELSE LET c  == m.connections[p]
             m1 == [m EXCEPT
                      !.connections[p].src_ch_num =
                          get_next_available_src_channel(m, c.source_block),
                      !.connections[p].dst_ch_num =
                          get_next_available_dst_channel(m, c.target_block)]
             m2 == [m1 EXCEPT !.blk[c.source_block].connections = Append(@, p)]
             m3 == [m2 EXCEPT !.blk[c.target_block].connections = Append(@, p)]
         IN  Reattach(draw(m3, p), p + 1)

\* first loop: every connection of self.connections leaves the lists of its
\* two blocks
RECURSIVE Detach(_, _)
Detach(m, p) ==
    IF p > Len(m.connections) THEN m
    ELSE LET c  == m.connections[p]
             m1 == [m EXCEPT !.blk[c.source_block].connections =
                                 RemoveFirst(@, p)]
             m2 == [m1 EXCEPT !.blk[c.target_block].connections =
                                 RemoveFirst(@, p)]
         IN  Detach(m2, p + 1)

\* a variant without the first loop
reassign_all_channels_NoDetach(m) == Reattach(m, 1)

\* reassign_all_channels once the confirmation was given
\* a variant whose first loop leaves the first connection attached
reassign_all_channels_FirstKept(m) == Reattach(Detach(m, 2), 1)

reassign_all_channels(m) == Reattach(Detach(m, 1), 1)

\* edit_connection_properties_direct.apply_changes on the fields the dialog
\* holds (the int() conversions succeeded)
apply_changes(m, p, new_name, new_depth, new_width, new_src_ch, new_dst_ch) ==
    IF new_name = "" THEN m
    ELSE IF new_depth <= 0 \/ new_width <= 0 THEN m
    ELSE IF new_src_ch < 0 \/ new_dst_ch < 0 THEN m
    ELSE draw([m EXCEPT !.connections[p].name = new_name,
                        !.connections[p].depth = new_depth,
                        !.connections[p].width = new_width,
                        !.connections[p].src_ch_num = new_src_ch,
                        !.connections[p].dst_ch_num = new_dst_ch], p)

\* the text of an entry of a dialog, as int() takes it: the text of an
\* integer, a text int() raises ValueError on, or the empty text (on which
\* int() raises ValueError too)
IntText(v) == [kind |-> "int", v |-> v]

JunkText == [kind |-> "junk", v |-> 0]

EmptyText == [kind |-> "empty", v |-> 0]

\* str.strip() on the names typed in the model
strip(s) ==
    CASE s \in {"", " "} -> ""
      [] s = " X" -> "X"
      [] s = "N " -> "N"
      [] OTHER -> s

\* edit_connection_properties_direct.apply_changes on the texts of the
\* entries: a failed int() raises ValueError before anything is checked
ApplyConnectionTexts(m, p, name_text, depth_text, width_text, src_ch_text, dst_ch_text) ==
    IF \E t \in {depth_text, width_text, src_ch_text, dst_ch_text} :
          t.kind # "int"
    THEN m
    ELSE apply_changes(m, p, strip(name_text), depth_text.v, width_text.v,
                       src_ch_text.v, dst_ch_text.v)

\* the positions of the connections that leave or enter block
Touching(m, block) ==
    {i \in DOMAIN m.connections :
       \/ m.connections[i].source_block = block
       \/ m.connections[i].target_block = block}

\* Block.resize
resize(m, block, width, height) ==
    [m EXCEPT !.blk[block].width = IF width > 50 THEN width ELSE 50,
              !.blk[block].height = IF height > 30 THEN height ELSE 30]

\* a variant that stores the name as soon as it is found not empty
edit_block_properties_NameFirst(m, block, name_text, number_text, width_text, height_text) ==
    IF m.selected_block = NoBlock \/ m.selected_block # block THEN m
    ELSE LET new_name == strip(name_text)
             m1 == [m EXCEPT !.blk[block].name = new_name]
         IN  IF new_name = "" THEN m
             ELSE IF number_text.kind = "junk" THEN m1
             ELSE IF number_text.kind = "int" /\ number_text.v <= 0 THEN m1
             ELSE IF width_text.kind # "int" \/ height_text.kind # "int" THEN m1
             ELSE IF width_text.v <= 0 \/ height_text.v <= 0 THEN m1
             ELSE LET m2 == resize([m1 EXCEPT !.blk[block].number =
                                                IF number_text.kind = "empty"
                                                THEN NoNumber
                                                ELSE number_text.v],
                                   block, width_text.v, height_text.v)
                  IN  DrawEach(m2, Touching(m2, block))

\* edit_block_properties.apply_changes for the dialog opened on block, on
\* the texts of its entries
edit_block_properties(m, block, name_text, number_text, width_text, height_text) ==
    IF m.selected_block = NoBlock \/ m.selected_block # block THEN m
    ELSE LET new_name == strip(name_text)
         IN  IF new_name = "" THEN m
             ELSE IF number_text.kind = "junk" THEN m
             ELSE IF number_text.kind = "int" /\ number_text.v <= 0 THEN m
             ELSE IF width_text.kind # "int" \/ height_text.kind # "int" THEN m
             ELSE IF width_text.v <= 0 \/ height_text.v <= 0 THEN m
             ELSE LET m2 == resize([m EXCEPT !.blk[block].name = new_name,
                                             !.blk[block].number =
                                                IF number_text.kind = "empty"
                                                THEN NoNumber
                                                ELSE number_text.v],
                                   block, width_text.v, height_text.v)
                  IN  DrawEach(m2, Touching(m2, block))

----------------------------------------------------------------------------
(* JSON files.  A parsed file is a record; a JSON object that lacks a key is *)
(* a record without that field.                                              *)

Has(r, key) == key \in DOMAIN r

\* dict.get(key, default)
Get(r, key, default) == IF Has(r, key) THEN r[key] ELSE default

\* block_map[name] = block
Bind(block_map, name, b) ==
    [n \in DOMAIN block_map \cup {name} |->
       IF n = name THEN b ELSE block_map[n]]

EmptyMap == [n \in {} |-> NoBlock]

\* {block.name: block for block in self.blocks}: a later block replaces an
\* earlier one of the same name
RECURSIVE MapOfBlocks(_, _, _)
MapOfBlocks(m, i, block_map) ==
    IF i > Len(m.blocks) THEN block_map
    ELSE MapOfBlocks(m, i + 1,
                     Bind(block_map, m.blk[m.blocks[i]].name, m.blocks[i]))

\* the loop of import_connections_json over connections_data from record i
\* on; st holds the diagram and the three result variables
RECURSIVE ImportRecords(_, _, _, _, _)
ImportRecords(st, connections_data, i, format_type, block_map) ==
    IF i > Len(connections_data) THEN st
    ELSE
      LET conn_data == connections_data[i]
          srcKey == IF format_type = "fifo_infos" THEN "src" ELSE "source_block"
          dstKey == IF format_type = "fifo_infos" THEN "dst"
                    ELSE "destination_block"
          fifo_name == Get(conn_data,
                           IF format_type = "fifo_infos" THEN "name"
                           ELSE "fifo_name", "FIFO")
          queue_depth == Get(conn_data,
                             IF format_type = "fifo_infos" THEN "qd"
                             ELSE "queue_depth", DefaultDepth)
          data_width == Get(conn_data,
                            IF format_type = "fifo_infos" THEN "width"
                            ELSE "data_width", DefaultWidth)
          source_channel == Get(conn_data,
                                IF format_type = "fifo_infos" THEN "src_ch_num"
                                ELSE "source_channel", 0)
          dest_channel == Get(conn_data,
                              IF format_type = "fifo_infos" THEN "dst_ch_num"
                              ELSE "destination_channel", 0)
          skip == [st EXCEPT !.skipped_count = @ + 1, !.errors = @ + 1]
          next ==
            IF ~Has(conn_data, srcKey) \/ ~Has(conn_data, dstKey)
            THEN skip    \* KeyError, caught by the inner except
            ELSE IF conn_data[srcKey] \notin DOMAIN block_map THEN skip
            ELSE IF conn_data[dstKey] \notin DOMAIN block_map THEN skip
            ELSE LET source_block == block_map[conn_data[srcKey]]
                     dest_block == block_map[conn_data[dstKey]]
                 IN  IF ~can_add_connection(st.m, source_block) THEN skip
                     ELSE IF ~can_add_connection(st.m, dest_block) THEN skip
                     ELSE [st EXCEPT
                             !.m = NewConnection(st.m, source_block, dest_block,
                                                 fifo_name, queue_depth,
                                                 data_width, source_channel,
                                                 dest_channel),
                             !.imported_count = @ + 1]
      IN  ImportRecords(next, connections_data, i + 1, format_type, block_map)

\* import_connections_json on the parsed file data; the result holds the
\* diagram and imported_count, skipped_count, len(error_messages)
import_connections_json(m, data) ==
    LET st0 == [m |-> m, imported_count |-> 0, skipped_count |-> 0,
                errors |-> 0, valid |-> TRUE]
    IN  IF Has(data, "fifo_infos")
        THEN ImportRecords(st0, data.fifo_infos, 1, "fifo_infos",
                           MapOfBlocks(m, 1, EmptyMap))
        ELSE IF Has(data, "connections")
        THEN ImportRecords(st0, data.connections, 1, "connections",
                           MapOfBlocks(m, 1, EmptyMap))
        ELSE [st0 EXCEPT !.valid = FALSE]

BlockKeys == {"x", "y", "width", "height", "name"}

\* load_json, "Load blocks": st holds the diagram, block_map and whether an
\* exception has ended the load
RECURSIVE LoadBlocks(_, _, _)
LoadBlocks(st, blocks_data, i) ==
    IF i > Len(blocks_data) \/ st.raised THEN st
    ELSE LET block_data == blocks_data[i]
         IN  IF ~(BlockKeys \subseteq DOMAIN block_data)
             THEN [st EXCEPT !.raised = TRUE]
             ELSE LET m1 == NewBlock(st.m, block_data.x, block_data.y,
                                     block_data.width, block_data.height,
                                     block_data.name,
                                     Get(block_data, "number", NoNumber))
                      b  == m1.blocks[Len(m1.blocks)]
                  IN  LoadBlocks([st EXCEPT
                                    !.m = m1,
                                    !.block_map = Bind(@, block_data.name, b)],
                                 blocks_data, i + 1)

\* load_json, new format: the loop over design_data["fifo_infos"]
RECURSIVE LoadFifoInfos(_, _, _)
LoadFifoInfos(st, fifo_infos, i) ==
    IF i > Len(fifo_infos) \/ st.raised THEN st
    ELSE LET conn_data == fifo_infos[i]
         IN  IF ~Has(conn_data, "src") \/ ~Has(conn_data, "dst")
             THEN [st EXCEPT !.raised = TRUE]
             ELSE IF /\ conn_data.src \in DOMAIN st.block_map
                     /\ conn_data.dst \in DOMAIN st.block_map
             THEN IF ~({"name", "qd", "width"} \subseteq DOMAIN conn_data)
                  THEN [st EXCEPT !.raised = TRUE]
                  ELSE LoadFifoInfos(
                         [st EXCEPT !.m =
                            NewConnection(st.m, st.block_map[conn_data.src],
                                          st.block_map[conn_data.dst],
                                          conn_data.name, conn_data.qd,
                                          conn_data.width,
                                          Get(conn_data, "src_ch_num", 0),
                                          Get(conn_data, "dst_ch_num", 0))],
                         fifo_infos, i + 1)
             ELSE LoadFifoInfos(st, fifo_infos, i + 1)

\* load_json, old format: the connections nested in block record i, from
\* its j-th on
RECURSIVE LoadNested(_, _, _, _)
LoadNested(st, source_block, nested, j) ==
    IF j > Len(nested) \/ st.raised THEN st
    ELSE LET conn_data == nested[j]
         IN  IF ~Has(conn_data, "target")
             THEN [st EXCEPT !.raised = TRUE]
             ELSE IF conn_data.target \in DOMAIN st.block_map
             THEN IF ~({"name", "depth", "width"} \subseteq DOMAIN conn_data)
                  THEN [st EXCEPT !.raised = TRUE]
                  ELSE LoadNested(
                         [st EXCEPT !.m =
                            NewConnection(st.m, source_block,
                                          st.block_map[conn_data.target],
                                          conn_data.name, conn_data.depth,
                                          conn_data.width,
                                          Get(conn_data, "src_ch_num", 0),
                                          Get(conn_data, "dst_ch_num", 0))],
                         source_block, nested, j + 1)
             ELSE LoadNested(st, source_block, nested, j + 1)

RECURSIVE LoadOldFormat(_, _, _)
LoadOldFormat(st, blocks_data, i) ==
    IF i > Len(blocks_data) \/ st.raised THEN st
    ELSE LET block_data == blocks_data[i]
         IN  LoadOldFormat(
               LoadNested(st, st.block_map[block_data.name],
                          Get(block_data, "connections", <<>>), 1),
               blocks_data, i + 1)

\* a variant that does not read the connections nested in the blocks
load_json_FifoInfosOnly(m, design_data, confirm) ==
    LET m0 == IF (m.blocks # <<>> \/ m.connections # <<>>) /\ ~confirm
              THEN m ELSE new_design(m)
        st0 == [m |-> m0, block_map |-> EmptyMap, raised |-> FALSE,
                valid |-> TRUE]
    IN  IF ~Has(design_data, "blocks") THEN [st0 EXCEPT !.valid = FALSE]
        ELSE LET st1 == LoadBlocks(st0, design_data.blocks, 1)
             IN  IF Has(design_data, "fifo_infos")
                 THEN LoadFifoInfos(st1, design_data.fifo_infos, 1)
                 ELSE st1

\* load_json on the parsed file design_data; confirm is the answer to
\* new_design's question, asked when the diagram is not empty.  The result
\* holds the diagram, and raised: an exception ended the load where it was;
\* valid: the "blocks" key was there
load_json(m, design_data, confirm) ==
    LET m0 == IF (m.blocks # <<>> \/ m.connections # <<>>) /\ ~confirm
              THEN m ELSE new_design(m)
        st0 == [m |-> m0, block_map |-> EmptyMap, raised |-> FALSE,
                valid |-> TRUE]
    IN  IF ~Has(design_data, "blocks") THEN [st0 EXCEPT !.valid = FALSE]
        ELSE LET st1 == LoadBlocks(st0, design_data.blocks, 1)
             IN  IF Has(design_data, "fifo_infos")
                 THEN LoadFifoInfos(st1, design_data.fifo_infos, 1)
                 ELSE LoadOldFormat(st1, design_data.blocks, 1)

\* the block names of the files of the model, in the order sorted() gives
NameOrder == <<"A", "B", "C", "Z">>

\* math.ceil(math.sqrt(n))
CeilSqrt(n) == CHOOSE c \in 0..n : c * c >= n /\ \A d \in 0..n : d * d >= n => c <= d

\* import_fifo_format, "Create blocks in a grid layout": the i-th name (from
\* 0) of sorted(block_names) on
RECURSIVE GridBlocks(_, _, _, _)
GridBlocks(st, sorted_names, i, cols) ==
    IF i >= Len(sorted_names) THEN st
    ELSE LET block_name == sorted_names[i + 1]
             x  == 50 + (i % cols) * 200
             y  == 50 + (i \div cols) * 150
             m1 == NewBlock(st.m, x, y, DefaultBlockWidth, DefaultBlockHeight,
                            block_name, i + 1)
         IN  GridBlocks([st EXCEPT
                           !.m = m1,
                           !.block_map = Bind(@, block_name,
                                              m1.blocks[Len(m1.blocks)])],
                        sorted_names, i + 1, cols)

\* import_fifo_format, "Create connections": the records from the i-th on
RECURSIVE FifoConnections(_, _, _)
FifoConnections(st, fifo_infos, i) ==
    IF i > Len(fifo_infos) \/ st.raised THEN st
    ELSE LET fifo_info == fifo_infos[i]
             source_block == st.block_map[fifo_info.src]
             target_block == st.block_map[fifo_info.dst]
         IN  IF ~(/\ can_add_connection(st.m, source_block)
                  /\ can_add_connection(st.m, target_block))
             THEN IF Has(fifo_info, "name")
                  THEN FifoConnections(st, fifo_infos, i + 1)
                  ELSE [st EXCEPT !.raised = TRUE]
             ELSE IF ~({"name", "qd", "width", "src_ch_num", "dst_ch_num"}
                         \subseteq DOMAIN fifo_info)
             THEN [st EXCEPT !.raised = TRUE]
             ELSE FifoConnections(
                    [st EXCEPT !.m =
                       NewConnection(st.m, source_block, target_block,
                                     fifo_info.name, fifo_info.qd,
                                     fifo_info.width, fifo_info.src_ch_num,
                                     fifo_info.dst_ch_num)],
                    fifo_infos, i + 1)

\* import_fifo_format on the parsed file data; confirm is the answer to
\* new_design's question.  raised: an exception ended the import where it
\* was; valid: the "fifo_infos" key was there
import_fifo_format(m, data, confirm) ==
    LET m0 == IF (m.blocks # <<>> \/ m.connections # <<>>) /\ ~confirm
              THEN m ELSE new_design(m)
        st0 == [m |-> m0, block_map |-> EmptyMap, raised |-> FALSE,
                valid |-> TRUE]
    IN  IF ~Has(data, "fifo_infos") THEN [st0 EXCEPT !.m = m, !.valid = FALSE]
        ELSE IF \E i \in DOMAIN data.fifo_infos :
                  ~Has(data.fifo_infos[i], "src") \/ ~Has(data.fifo_infos[i], "dst")
        THEN [st0 EXCEPT !.raised = TRUE]
        ELSE LET block_names ==
                   UNION {{data.fifo_infos[i].src, data.fifo_infos[i].dst} :
                            i \in DOMAIN data.fifo_infos}
                 sorted_names ==
                   SelectSeq(NameOrder, LAMBDA n : n \in block_names)
                 st1 == GridBlocks(st0, sorted_names, 0,
                                   CeilSqrt(Cardinality(block_names)))
             IN  FifoConnections(st1, data.fifo_infos, 1)

\* save_json: the design_data it builds and json.dump writes (the
\* created_date of the metadata is not modelled); None is written as null
\* and read back as None
save_json(m) ==
    [metadata |-> [created_by |-> "Hardware Design Tool", version |-> "1.0"],
     blocks |-> [i \in DOMAIN m.blocks |->
                   LET block == m.blk[m.blocks[i]]
                   IN  [x |-> block.x, y |-> block.y, width |-> block.width,
                        height |-> block.height, name |-> block.name,
                        number |-> block.number]],
     fifo_infos |-> [p \in DOMAIN m.connections |->
                       LET conn == m.connections[p]
                       IN  [name |-> conn.name,
                            src |-> m.blk[conn.source_block].name,
                            src_ch_num |-> conn.src_ch_num,
                            dst |-> m.blk[conn.target_block].name,
                            dst_ch_num |-> conn.dst_ch_num,
                            qd |-> conn.depth, width |-> conn.width]]]

----------------------------------------------------------------------------
(* Event handlers.  Done(m, did, d): the handler leaves the object graph m, *)
(* having done did, with d deletions confirmed since the last load.         *)

\* no file was written or read yet
NoFile == [nofile |-> TRUE]

\* what load_json did: ok, it ran to its end; code "invalid", the file has no
\* "blocks" key, "raised", an exception ended it, else "loaded"; confirm, the
\* answer given to new_design; n, the connections of the diagram afterwards
DidLoad(code, confirm, n) ==
    [op |-> "load_json", ok |-> code = "loaded", a |-> 0, n |-> n,
     code |-> code, confirm |-> confirm]

Done(m, did, d) ==
    /\ gui' = Collect(m)
    /\ last' = did
    /\ deleted' = d
    /\ UNCHANGED file

\* the same for a handler of the File menu, which read or wrote the file f
DoneFile(m, did, d, f) ==
    /\ gui' = Collect(m)
    /\ last' = did
    /\ deleted' = d
    /\ file' = f

Positions == 1..Len(gui.connections)

BlockList == Range(gui.blocks)

Max(S) == CHOOSE v \in S : \A w \in S : w <= v
Min(S) == CHOOSE v \in S : \A w \in S : v <= w

\* the name typed into the dialog (an empty answer adds nothing)
add_block(name) ==
    LET right  == Max({gui.blk[b].x + gui.blk[b].width : b \in BlockList})
        bottom == Max({gui.blk[b].y + gui.blk[b].height : b \in BlockList})
        x == IF gui.blocks = <<>> THEN 100
             ELSE IF right + 50 > 800 THEN 100 ELSE right + 50
        y == IF gui.blocks # <<>> /\ right + 50 > 800 THEN bottom + 50 ELSE 100
    IN  /\ FreeIds(gui) # {}
        /\ Done(NewBlock(gui, x, y, DefaultBlockWidth, DefaultBlockHeight,
                         name, NoNumber),
                NoOp, deleted)

toggle_connect_mode ==
    Done(IF ~gui.connecting THEN [gui EXCEPT !.connecting = TRUE]
         ELSE cancel_operations(gui),
         NoOp, deleted)

\* hitB: the last block of self.blocks that contains the point, or NoBlock;
\* hitC: the first connection of self.connections near the point, or NoConn
on_canvas_click(hitB, hitC) ==
    LET m0 == clear_selections(gui)
        start == gui.connect_start_block
    IN  IF hitB # NoBlock
        THEN IF gui.connecting
             THEN IF start = NoBlock
                  THEN Done([m0 EXCEPT !.connect_start_block = hitB],
                            NoOp, deleted)
                  ELSE IF hitB # start
                  THEN LET r == create_connection_between_blocks(m0, start, hitB)
                       IN  Done([r.m EXCEPT !.connect_start_block = NoBlock],
                                Did("create", r.ok, 0, 0), deleted)
                  ELSE Done([m0 EXCEPT !.connect_start_block = NoBlock],
                            NoOp, deleted)
             ELSE Done([m0 EXCEPT !.selected_block = hitB,
                                  !.blk[hitB].selected = TRUE],
                       NoOp, deleted)
        ELSE IF hitC # NoConn
        THEN Done(draw([m0 EXCEPT !.selected_connection = hitC,
                                  !.connections[hitC].selected = TRUE],
                       hitC),
                  NoOp, deleted)
        ELSE Done(IF gui.connecting
                  THEN [m0 EXCEPT !.connect_start_block = NoBlock]
                  ELSE m0,
                  NoOp, deleted)

\* the connect-mode branch of on_canvas_drag: the rubber-band line is drawn
on_canvas_drag ==
    /\ gui.connecting
    /\ gui.connect_start_block # NoBlock
    /\ Done([gui EXCEPT !.temp_line_id = TRUE], NoOp, deleted)

\* the connect-mode branch of on_canvas_release; hit: the first block of
\* self.blocks, other than connect_start_block, that contains the release
\* point, or NoBlock
on_canvas_release(hit) ==
    /\ gui.connecting
    /\ gui.connect_start_block # NoBlock
    /\ gui.temp_line_id
    /\ IF hit # NoBlock
       THEN LET r == create_connection_between_blocks(
                         gui, gui.connect_start_block, hit)
            IN  Done([r.m EXCEPT !.temp_line_id = FALSE,
                                 !.connect_start_block = NoBlock],
                     Did("create", r.ok, 0, 0), deleted)
       ELSE Done([gui EXCEPT !.temp_line_id = FALSE,
                             !.connect_start_block = NoBlock],
                 NoOp, deleted)

\* for block in reversed(self.blocks): the first block of the loop that
\* contains the point, that is the last one of the list, or NoBlock
LastBlockAt(m, x, y) ==
    LET S == {i \in DOMAIN m.blocks : Block_contains_point(m, m.blocks[i], x, y)}
    IN  IF S = {} THEN NoBlock ELSE m.blocks[Max(S)]

\* for block in self.blocks: the first block of the list that contains the
\* point and is not connect_start_block, or NoBlock
FirstOtherBlockAt(m, x, y, start) ==
    LET S == {i \in DOMAIN m.blocks :
                /\ Block_contains_point(m, m.blocks[i], x, y)
                /\ m.blocks[i] # start}
    IN  IF S = {} THEN NoBlock ELSE m.blocks[Min(S)]

\* on_canvas_click at a point inside some block (the connections are looked
\* at only when no block contains the point)
click_at(x, y) ==
    /\ LastBlockAt(gui, x, y) # NoBlock
    /\ on_canvas_click(LastBlockAt(gui, x, y), NoConn)

\* on_canvas_release at a point
release_at(x, y) ==
    on_canvas_release(FirstOtherBlockAt(gui, x, y, gui.connect_start_block))

\* connection.contains_point(x, y, tolerance) asked of the connection at
\* position p; last.ok holds the answer
contains_point_call(p, x, y, tolerance) ==
    Done(gui,
         [op |-> "contains_point",
          ok |-> FIFOConnection_contains_point(gui.connections[p].drawn,
                                               x, y, tolerance),
          a |-> p, n |-> tolerance, x |-> x, y |-> y],
         deleted)

\* on_canvas_right_click on a block, then the command picked in the context
\* menu: "none" (menu dismissed, or a confirmation refused), "connect"
\* (Quick Connect to t), "delete" (Delete Block, confirmed)
right_click_block(clicked_block, cmd, t) ==
    LET m0 == clear_connection_selection(
                  [gui EXCEPT !.selected_block = clicked_block])
        m1 == [m0 EXCEPT !.blk[clicked_block].selected = TRUE]
    IN  CASE cmd = "connect" ->
               LET r == create_connection_between_blocks(m1, clicked_block, t)
               IN  Done(r.m, Did("create", r.ok, 0, 0), deleted)
          [] cmd = "delete" ->
               LET m2 == delete_block(m1, clicked_block)
               IN  Done(m2,
                        Did("delete_block", TRUE, clicked_block,
                            Len(m1.connections) - Len(m2.connections)),
                        deleted + 1)
          [] OTHER -> Done(m1, NoOp, deleted)

\* on_canvas_right_click on a connection, then "none" or "delete" (Delete
\* Connection, confirmed)
right_click_connection(clicked_connection, cmd) ==
    LET m0 == clear_block_selection(
                  [gui EXCEPT !.selected_connection = clicked_connection])
        m1 == draw([m0 EXCEPT !.connections[clicked_connection].selected = TRUE],
                   clicked_connection)
    IN  IF cmd = "delete"
        THEN Done(delete_connection(m1, clicked_connection),
                  Did("delete_connection", TRUE, clicked_connection, 1),
                  deleted + 1)
        ELSE Done(m1, NoOp, deleted)

\* delete_selected with the confirmation given
delete_selected ==
    IF gui.selected_block # NoBlock
    THEN LET m2 == delete_block(gui, gui.selected_block)
         IN  /\ gui.selected_block \in BlockList
             /\ Done(m2,
                     Did("delete_block", TRUE, gui.selected_block,
                         Len(gui.connections) - Len(m2.connections)),
                     deleted + 1)
    ELSE /\ gui.selected_connection # NoConn
         /\ Done(delete_connection(gui, gui.selected_connection),
                 Did("delete_connection", TRUE, gui.selected_connection, 1),
                 deleted + 1)

\* the Reassign All Channels button of the Connection Info window, confirmed
\* (last.n: how many connections it gave another channel number)
reassign_button ==
    LET m1 == reassign_all_channels(gui)
    IN  /\ gui.connections # <<>>
        /\ Done(m1,
                Did("reassign", TRUE, 0,
                    Cardinality({p \in Positions :
                                   m1.connections[p] # gui.connections[p]})),
                deleted)

\* the Apply button of the connection property dialog opened for connection p
apply_button(p, new_name, new_depth, new_width, new_src_ch, new_dst_ch) ==
    Done(apply_changes(gui, p, new_name, new_depth, new_width,
                       new_src_ch, new_dst_ch),
         Did("edit_connection", TRUE, 0, 0), deleted)

\* on_canvas_double_click on a block, then Apply pressed once in the dialog
\* with the texts given, and the dialog closed
double_click_block(b, name_text, number_text, width_text, height_text) ==
    LET m1 == [gui EXCEPT !.selected_block = b]
    IN  Done(edit_block_properties(m1, b, name_text, number_text, width_text,
                                   height_text),
             [op |-> "edit_block", ok |-> TRUE, a |-> b, n |-> 0,
              args |-> [name |-> name_text, number |-> number_text,
                        width |-> width_text, height |-> height_text]],
             deleted)

\* on_canvas_double_click near connection p alone, then Apply pressed once
\* in the dialog with the texts given, and the dialog closed
double_click_connection(p, name_text, depth_text, width_text, src_ch_text, dst_ch_text) ==
    LET m1 == [gui EXCEPT !.selected_connection = p]
    IN  Done(ApplyConnectionTexts(m1, p, name_text, depth_text, width_text,
                                  src_ch_text, dst_ch_text),
             [op |-> "edit_connection_texts", ok |-> TRUE, a |-> p, n |-> 0,
              args |-> [name |-> name_text, depth |-> depth_text,
                        width |-> width_text, src_ch |-> src_ch_text,
                        dst_ch |-> dst_ch_text]],
             deleted)

\* show_block_info.edit_selected_block with the row of block_name picked in
\* the tree of the Block Information window (the window is not modal and
\* lists the blocks as they were when it was opened), then Apply pressed
\* once in the dialog with the texts given, and the dialog closed
edit_selected_block(block_name, name_text, number_text, width_text, height_text) ==
    LET found == {i \in DOMAIN gui.blocks :
                    gui.blk[gui.blocks[i]].name = block_name}
        block == gui.blocks[Min(found)]
        m1 == [gui EXCEPT !.selected_block = block]
    IN  IF found = {} THEN Done(gui, NoOp, deleted)
        ELSE Done(edit_block_properties(m1, block, name_text, number_text,
                                        width_text, height_text),
                  [op |-> "edit_block", ok |-> TRUE, a |-> block, n |-> 0,
                   args |-> [name |-> name_text, number |-> number_text,
                             width |-> width_text, height |-> height_text]],
                  deleted)

\* File > New Design, the question (asked when the diagram is not empty)
\* answered by confirm
new_button(confirm) ==
    IF (gui.blocks # <<>> \/ gui.connections # <<>>) /\ ~confirm
    THEN Done(gui, NoOp, deleted)
    ELSE Done(new_design(gui), Did("new_design", TRUE, 0, 0), 0)

\* File > Import Connections (JSON) with the file chosen and parsed
import_connections_button(data) ==
    LET r == import_connections_json(gui, data)
    IN  DoneFile(r.m,
                 [op |-> "import_connections", ok |-> r.valid,
                  a |-> r.skipped_count, n |-> r.imported_count,
                  errors |-> r.errors,
                  added |-> Len(r.m.connections) - Len(gui.connections)],
                 deleted, data)

\* File > Save Design (JSON) with the file name chosen
save_button ==
    DoneFile(gui, Did("save_json", TRUE, 0, 0), deleted, save_json(gui))

\* File > Load Design (JSON) with the file chosen and parsed (the model has
\* MaxBlockIds Block objects: a file that needs more is not chosen)
load_button(design_data, confirm) ==
    LET r == load_json(gui, design_data, confirm)
        kept == (gui.blocks # <<>> \/ gui.connections # <<>>) /\ ~confirm
    IN  /\ Has(design_data, "blocks") =>
              Len(design_data.blocks)
                + (IF kept THEN Cardinality(Referenced(gui)) ELSE 0)
                  <= MaxBlockIds
        /\ DoneFile(r.m,
                    DidLoad(IF ~r.valid THEN "invalid"
                            ELSE IF r.raised THEN "raised" ELSE "loaded",
                            confirm, Len(r.m.connections)),
                    0, design_data)

\* File > Import FIFO Format with the file chosen and parsed (the model has
\* MaxBlockIds Block objects: a file that needs more is not chosen)
import_fifo_button(data, confirm) ==
    LET r == import_fifo_format(gui, data, confirm)
        kept == (gui.blocks # <<>> \/ gui.connections # <<>>) /\ ~confirm
        names == UNION {{data.fifo_infos[i].src, data.fifo_infos[i].dst} :
                          i \in DOMAIN data.fifo_infos}
    IN  /\ Has(data, "fifo_infos") =>
              /\ \A i \in DOMAIN data.fifo_infos :
                    Has(data.fifo_infos[i], "src") /\ Has(data.fifo_infos[i], "dst")
              /\ Cardinality(names)
                   + (IF kept THEN Cardinality(Referenced(gui)) ELSE 0)
                     <= MaxBlockIds
        /\ DoneFile(r.m,
                    [DidLoad(IF ~r.valid THEN "invalid"
                             ELSE IF r.raised THEN "raised" ELSE "loaded",
                             confirm, Len(r.m.connections))
                       EXCEPT !.op = "import_fifo_format"],
                    0, data)

----------------------------------------------------------------------------
(* Files *)

BlockData(name, x, y) ==
    [x |-> x, y |-> y, width |-> DefaultBlockWidth,
     height |-> DefaultBlockHeight, name |-> name, number |-> NoNumber]

Fifo(name, src, src_ch_num, dst, dst_ch_num) ==
    [name |-> name, src |-> src, src_ch_num |-> src_ch_num, dst |-> dst,
     dst_ch_num |-> dst_ch_num, qd |-> DefaultDepth, width |-> DefaultWidth]

\* a saved design of three blocks and no connection
DesignABC ==
    [blocks |-> <<BlockData("A", 100, 100), BlockData("B", 300, 100),
                  BlockData("C", 500, 100)>>,
     fifo_infos |-> <<>>]

\* a saved design of two blocks and no connection
DesignAB ==
    [blocks |-> <<BlockData("A", 100, 100), BlockData("B", 300, 100)>>,
     fifo_infos |-> <<>>]

\* a saved design of three blocks and n connections from A to B, on the
\* channels 0 .. n-1 of both
DesignFull(n) ==
    [blocks |-> DesignABC.blocks,
     fifo_infos |-> [i \in 1..n |-> Fifo("F" \o Str(i), "A", i - 1, "B", i - 1)]]

\* connection files: channels 0, 1 and 3 from A to B
ImportGap ==
    [fifo_infos |-> <<Fifo("G0", "A", 0, "B", 0), Fifo("G1", "A", 1, "B", 1),
                      Fifo("G3", "A", 3, "B", 3)>>]

\* a connection from A to A, and one from a block the diagram does not have
ImportSelf ==
    [connections |-> <<[source_block |-> "A", destination_block |-> "A",
                        fifo_name |-> "S"],
                       [source_block |-> "Z", destination_block |-> "A"]>>]

\* twice the same channels between the same blocks
ImportDup ==
    [fifo_infos |-> <<Fifo("D", "A", 0, "B", 0), Fifo("D", "A", 0, "B", 0)>>]

\* records in the "connections" format: a good one, an unknown block, one
\* that finds its endpoint full when the first was made on a block with 14,
\* another good one, and one without destination
ImportMixed ==
    [connections |->
       <<[source_block |-> "A", destination_block |-> "C",
          fifo_name |-> "M1", source_channel |-> 7],
         [source_block |-> "Z", destination_block |-> "A"],
         [source_block |-> "C", destination_block |-> "A", fifo_name |-> "M3"],
         [source_block |-> "C", destination_block |-> "B",
          destination_channel |-> 9],
         [source_block |-> "B"]>>]

\* a saved design whose first connection record has no "qd" and whose second
\* is complete
DesignBroken ==
    [blocks |-> DesignAB.blocks,
     fifo_infos |-> <<[name |-> "K1", src |-> "A", dst |-> "B", width |-> 8],
                      Fifo("K2", "A", 0, "B", 0)>>]

\* a FIFO format file whose second record has no channel numbers
FifoNoChannel ==
    [fifo_infos |->
       <<Fifo("N1", "B", 1, "A", 1),
         [name |-> "N2", src |-> "A", dst |-> "B", qd |-> DefaultDepth,
          width |-> DefaultWidth]>>]

\* a block record of the old format, with its connections nested
OldBlockData(name, x, y, connections) ==
    [x |-> x, y |-> y, width |-> DefaultBlockWidth,
     height |-> DefaultBlockHeight, name |-> name, connections |-> connections]

\* designs saved in the old format: two blocks with a connection each way
\* and one to a block the file does not have
LegacyAB ==
    [blocks |->
       <<OldBlockData("A", 100, 100,
            <<[target |-> "B", name |-> "L1", depth |-> 4, width |-> 8,
               src_ch_num |-> 2, dst_ch_num |-> 1],
              [target |-> "Z", name |-> "L2", depth |-> 4, width |-> 8]>>),
         OldBlockData("B", 300, 100,
            <<[target |-> "A", name |-> "L3", depth |-> 2, width |-> 16]>>)>>]

\* one block with a connection to itself, one to a block of another design,
\* and one that lacks its depth
LegacyC ==
    [blocks |->
       <<OldBlockData("C", 500, 100,
            <<[target |-> "C", name |-> "L4", depth |-> 4, width |-> 8,
               dst_ch_num |-> 3],
              [target |-> "A", name |-> "L5", depth |-> 4, width |-> 8],
              [target |-> "C", name |-> "L6", width |-> 8],
              [target |-> "C", name |-> "L7", depth |-> 4, width |-> 8]>>)>>]

\* connection records under the old field names
ImportLegacy ==
    [connections |->
       <<[source_block |-> "A", destination_block |-> "B",
          fifo_name |-> "I1", queue_depth |-> 4, data_width |-> 8,
          source_channel |-> 2, destination_channel |-> 1],
         [source_block |-> "B", destination_block |-> "A"],
         [source_block |-> "Z", destination_block |-> "A", fifo_name |-> "I3"],
         [destination_block |-> "A", queue_depth |-> 4]>>]

\* a saved design of two blocks and one connection
DesignOne ==
    [blocks |-> DesignAB.blocks,
     fifo_infos |-> <<Fifo("F", "A", 0, "B", 0)>>]

\* a saved design of three blocks, B to the right of A and C below A
DesignGrid ==
    [blocks |-> <<BlockData("A", 100, 100), BlockData("B", 300, 100),
                  BlockData("C", 100, 300)>>,
     fifo_infos |-> <<>>]

\* a saved design of three blocks, C lying partly over B
DesignOverlap ==
    [blocks |-> <<BlockData("A", 100, 100), BlockData("B", 300, 100),
                  BlockData("C", 350, 120)>>,
     fifo_infos |-> <<>>]

\* a saved design of three blocks, one connection from A to B on its
\* right and two between A and C below it
DesignNear ==
    [blocks |-> <<BlockData("A", 100, 100), BlockData("B", 300, 100),
                  BlockData("C", 100, 300)>>,
     fifo_infos |-> <<Fifo("F1", "A", 0, "B", 0), Fifo("F2", "A", 1, "C", 0),
                      Fifo("F3", "C", 0, "A", 0)>>]

\* a saved design with two blocks named A, and one connection from A to B
DesignTwins ==
    [blocks |-> <<BlockData("A", 100, 100), BlockData("A", 300, 100),
                  BlockData("B", 100, 300)>>,
     fifo_infos |-> <<Fifo("T", "A", 0, "B", 0)>>]

\* a saved design whose one block is 40 wide and 20 high
DesignSmall ==
    [blocks |-> <<[x |-> 100, y |-> 100, width |-> 40, height |-> 20,
                   name |-> "A", number |-> NoNumber]>>,
     fifo_infos |-> <<>>]

\* a saved design of three blocks, A and B low (150 x 30) side by side, and
\* C narrow (50 x 80) below A
DesignFlat ==
    [blocks |-> <<[x |-> 100, y |-> 100, width |-> 150, height |-> 30,
                   name |-> "A", number |-> NoNumber],
                  [x |-> 300, y |-> 100, width |-> 150, height |-> 30,
                   name |-> "B", number |-> NoNumber],
                  [x |-> 100, y |-> 300, width |-> 50, height |-> 80,
                   name |-> "C", number |-> NoNumber]>>,
     fifo_infos |-> <<>>]

\* a FIFO-format file that names three blocks, not in sorted order
FifoTriple ==
    [fifo_infos |-> <<Fifo("T1", "C", 0, "A", 0), Fifo("T2", "B", 0, "C", 0)>>]

\* two records for the blocks A and B, one each way
ImportPair ==
    [fifo_infos |-> <<Fifo("P1", "A", 5, "B", 5), Fifo("P2", "B", 6, "A", 6)>>]

\* a JSON file that is no design: it has no "blocks" key
NotADesign == [connections |-> <<>>]

ImportFiles == {ImportGap, ImportSelf, ImportDup}

Records(data) ==
    IF Has(data, "fifo_infos") THEN data.fifo_infos ELSE data.connections

----------------------------------------------------------------------------
(* Specifications.  All start from the empty diagram of __init__.          *)

Init ==
    /\ gui = [blocks |-> <<>>, blk |-> [b \in BlockIds |-> FreeBlock],
              connections |-> <<>>, selected_block |-> NoBlock,
              selected_connection |-> NoConn, connecting |-> FALSE,
              connect_start_block |-> NoBlock, temp_line_id |-> FALSE]
    /\ last = NoOp
    /\ deleted = 0
    /\ file = NoFile

\* the model stops adding connections by hand when the connections of the
\* diagram and the deletions since it was loaded amount to MaxConns
Room == Len(gui.connections) + deleted < MaxConns

\* the model stops deleting at MaxDeletes deletions in a loaded design
Budget == deleted < MaxDeletes

QuickConnect ==
    \E b \in BlockList : \E t \in BlockList \ {b} :
        right_click_block(b, "connect", t)

DeleteBlock == \E b \in BlockList : right_click_block(b, "delete", b)

DeleteConnection == \E p \in Positions : right_click_connection(p, "delete")

(* Spec: a loaded design of three blocks edited through the context menus *)

Next ==
    \/ load_button(DesignABC, TRUE)
    \/ Room /\ QuickConnect
    \/ Budget /\ DeleteBlock
    \/ Budget /\ DeleteConnection

Spec == Init /\ [][Next]_vars

(* SpecChan: two blocks; connections made by hand and imported, channel    *)
(* numbers edited and reassigned                                           *)

\* the same with MaxChanConns, for a connection made by hand and for the
\* records of an imported file
RoomChan == Len(gui.connections) + deleted < MaxChanConns

Fits(data) ==
    Len(gui.connections) + deleted + Len(Records(data)) <= MaxChanConns

\* the dialog of connection p with one channel field retyped as ch
EditSrcChannel(p, ch) ==
    LET c == gui.connections[p]
    IN  apply_button(p, c.name, c.depth, c.width, ch, c.dst_ch_num)

EditDstChannel(p, ch) ==
    LET c == gui.connections[p]
    IN  apply_button(p, c.name, c.depth, c.width, c.src_ch_num, ch)

NextChan ==
    \/ load_button(DesignAB, TRUE)
    \/ RoomChan /\ QuickConnect
    \/ Budget /\ DeleteConnection
    \/ reassign_button
    \/ \E data \in ImportFiles : Fits(data) /\ import_connections_button(data)

SpecChan == Init /\ [][NextChan]_vars

(* SpecLegacy: designs in the old format loaded over the empty diagram or  *)
(* on top of a diagram (new_design refused), connection files under the    *)
(* old field names imported, connections made by hand from the first block *)
(* of the list, and connections deleted                                    *)

NextLegacy ==
    \/ \E design_data \in {DesignAB, LegacyAB, LegacyC} :
         \E confirm \in BOOLEAN :
           /\ ~confirm => Room
           /\ load_button(design_data, confirm)
    \/ \E i \in {1} \cap DOMAIN gui.blocks :
         \E t \in BlockList \ {gui.blocks[i]} :
           Room /\ right_click_block(gui.blocks[i], "connect", t)
    \/ Room /\ import_connections_button(ImportLegacy)
    \/ Budget /\ DeleteConnection

SpecLegacy == Init /\ [][NextLegacy]_vars

(* SpecProps: a loaded design of two blocks and a connection, and the two   *)
(* property dialogs with good and bad texts in their entries                *)

NextProps ==
    \/ \E design_data \in {DesignOne, DesignSmall} :
         load_button(design_data, TRUE)
    \/ \E b \in BlockList :
         \E name_text \in {"", " ", " X"} :
         \E number_text \in {EmptyText, JunkText, IntText(0), IntText(7)} :
         \E width_text \in {JunkText, IntText(0), IntText(40)} :
         \E height_text \in {IntText(-3), IntText(90)} :
           double_click_block(b, name_text, number_text, width_text,
                              height_text)
    \/ \E p \in Positions :
         \E name_text \in {"", "N "} :
         \E depth_text \in {JunkText, IntText(0), IntText(4)} :
         \E width_text \in {IntText(-1), IntText(8)} :
         \E src_ch_text \in {IntText(-1), IntText(2)} :
         \E dst_ch_text \in {EmptyText, IntText(-1), IntText(1)} :
           double_click_connection(p, name_text, depth_text, width_text,
                                   src_ch_text, dst_ch_text)

SpecProps == Init /\ [][NextProps]_vars

(* SpecDraw: a loaded design of three blocks, one beside and one below the  *)
(* first; connections made by hand, imported, reassigned and deleted, and   *)
(* blocks deleted                                                           *)

NextDraw ==
    \/ load_button(DesignGrid, TRUE)
    \/ Room /\ QuickConnect
    \/ Budget /\ DeleteConnection
    \/ Budget /\ DeleteBlock
    \/ reassign_button
    \/ /\ Len(gui.connections) + deleted + Len(Records(ImportPair)) <= MaxConns
       /\ import_connections_button(ImportPair)

SpecDraw == Init /\ [][NextDraw]_vars

(* SpecEdit: two blocks; connections made by hand, channel numbers retyped *)
(* in the property dialog and reassigned                                   *)

NextEdit ==
    \/ load_button(DesignAB, TRUE)
    \/ Room /\ QuickConnect
    \/ reassign_button
    \/ \E p \in Positions : \E ch \in -1..MaxChannel : EditSrcChannel(p, ch)
    \/ \E p \in Positions : \E ch \in -1..MaxChannel : EditDstChannel(p, ch)

SpecEdit == Init /\ [][NextEdit]_vars

(* SpecCap: designs that fill blocks A and B; the hand-made connections     *)
(* start at the first or the last block of the list, they and the imported  *)
(* ones are bounded by the capacity check of the program itself, and the    *)
(* connection deleted is the first or the last of the list                  *)

NextCap ==
    \/ \E n \in {MaxConnectionsPerBlock, MaxConnectionsPerBlock + 1} :
         load_button(DesignFull(n), TRUE)
    \/ \E i \in {1, Len(gui.blocks)} \cap DOMAIN gui.blocks :
         \E t \in BlockList \ {gui.blocks[i]} :
           right_click_block(gui.blocks[i], "connect", t)
    \/ \E p \in {1, Len(gui.connections)} \cap Positions :
         Budget /\ right_click_connection(p, "delete")
    \/ \E data \in {ImportSelf, ImportMixed} : import_connections_button(data)

SpecCap == Init /\ [][NextCap]_vars

RoomUI == Len(gui.connections) < MaxUIConns

(* SpecFile: a loaded design of two blocks, connect mode, and the design   *)
(* saved and loaded again; it is loaded on top of the diagram (new_design  *)
(* refused) while the connections stay within MaxUIConns                   *)

NextFile ==
    \/ load_button(DesignAB, TRUE)
    \/ toggle_connect_mode
    \/ \E b \in BlockList : RoomUI /\ on_canvas_click(b, NoConn)
    \/ RoomUI /\ QuickConnect
    \/ Budget /\ DeleteBlock
    \/ \E confirm \in BOOLEAN : load_button(NotADesign, confirm)
    \/ load_button(DesignBroken, TRUE)
    \/ import_fifo_button(FifoNoChannel, TRUE)
    \/ save_button
    \/ last.op = "save_json" /\ load_button(file, TRUE)
    \/ /\ last.op = "save_json"
       /\ Len(gui.connections) + Len(file.fifo_infos) <= MaxUIConns
       /\ load_button(file, FALSE)

SpecFile == Init /\ [][NextFile]_vars

(* SpecUI: blocks added by hand, the mouse handlers and connect mode *)

\* what can be under the pointer: a block (the blocks add_block places do
\* not overlap), else a connection, else nothing
NextUI ==
    \/ add_block("Module")
    \/ toggle_connect_mode
    \/ \E b \in BlockList : RoomUI /\ on_canvas_click(b, NoConn)
    \/ \E p \in Positions : on_canvas_click(NoBlock, p)
    \/ on_canvas_click(NoBlock, NoConn)
    \/ on_canvas_drag
    \/ \E b \in (BlockList \ {gui.connect_start_block}) \cup {NoBlock} :
         RoomUI /\ on_canvas_release(b)
    \/ \E b \in BlockList : right_click_block(b, "none", b)
    \/ RoomUI /\ QuickConnect
    \/ Budget /\ DeleteBlock
    \/ \E p \in Positions : right_click_connection(p, "none")
    \/ Budget /\ DeleteConnection
    \/ Budget /\ delete_selected

SpecUI == Init /\ [][NextUI]_vars

(* SpecAnchor: connections drawn between low and narrow blocks *)

NextAnchor ==
    \/ load_button(DesignFlat, TRUE)
    \/ Room /\ QuickConnect
    \/ Budget /\ DeleteConnection
    \/ /\ Len(gui.connections) + deleted + Len(Records(ImportPair)) <= MaxConns
       /\ import_connections_button(ImportPair)

SpecAnchor == Init /\ [][NextAnchor]_vars

(* SpecHit: the mouse on a design whose blocks B and C overlap *)

\* points inside A only, B only, B and C, C only, and inside no block
HitPoints == {<<110, 110>>, <<310, 110>>, <<360, 130>>, <<480, 190>>,
              <<600, 600>>}

NextHit ==
    \/ load_button(DesignOverlap, TRUE)
    \/ toggle_connect_mode
    \/ \E pt \in HitPoints : Room /\ click_at(pt[1], pt[2])
    \/ on_canvas_drag
    \/ \E pt \in HitPoints : Room /\ release_at(pt[1], pt[2])
    \/ Budget /\ DeleteConnection

SpecHit == Init /\ [][NextHit]_vars

(* SpecNear: contains_point asked of the connections of a loaded design *)

\* points on, beside and beyond the straight path from (250,140) to
\* (300,140), and along the curve from (185,180) to (185,300)
NearPoints ==
    {<<275, 140>>, <<275, 141>>, <<275, 148>>, <<275, 149>>, <<305, 140>>,
     <<308, 140>>, <<309, 140>>, <<320, 140>>, <<305, 146>>, <<306, 146>>,
     <<242, 140>>, <<241, 140>>, <<175, 240>>, <<183, 240>>, <<184, 240>>,
     <<207, 240>>, <<215, 240>>, <<216, 240>>, <<199, 240>>, <<185, 305>>,
     <<190, 306>>, <<185, 309>>, <<190, 184>>, <<400, 400>>}

Tolerances == {0, 8}

NextNear ==
    \/ load_button(DesignNear, TRUE)
    \/ \E p \in Positions : \E pt \in NearPoints : \E tolerance \in Tolerances :
         contains_point_call(p, pt[1], pt[2], tolerance)

SpecNear == Init /\ [][NextNear]_vars

(* SpecNames: files read into a design in which two blocks share a name;
   every connection is made by load_json or import_connections_json *)

NextNames ==
    \/ \E design_data \in {DesignTwins, DesignAB} :
         load_button(design_data, TRUE)
    \/ \E data \in {ImportPair, ImportDup, ImportSelf, ImportGap} :
         Room /\ import_connections_button(data)
    \/ Budget /\ DeleteConnection
    \/ Budget /\ DeleteBlock

SpecNames == Init /\ [][NextNames]_vars

(* SpecGrid: FIFO-format files imported into an empty design or into one
   that holds blocks, the question of new_design answered Yes or No *)

NextGrid ==
    \/ add_block("Module")
    \/ \E data \in {ImportPair, ImportGap, FifoTriple} : \E confirm \in BOOLEAN :
         import_fifo_button(data, confirm)
    \/ Budget /\ DeleteConnection
    \/ Budget /\ DeleteBlock

SpecGrid == Init /\ [][NextGrid]_vars

(* SpecSelect: a loaded design of two blocks and a connection; blocks and   *)
(* connections selected with the left and the right mouse button, by a      *)
(* double click and from the Block Information window, and deleted          *)

\* the texts a block dialog shows when it opens
NumberText(b) ==
    IF gui.blk[b].number = NoNumber THEN EmptyText
    ELSE IntText(gui.blk[b].number)

\* a double click arrives after the click of its first press, which has
\* selected what is under the pointer
DoubleClick ==
    \/ \E b \in BlockList :
         /\ gui.selected_block = b
         /\ gui.selected_connection = NoConn
         /\ double_click_block(b, gui.blk[b].name, NumberText(b),
                               IntText(gui.blk[b].width),
                               IntText(gui.blk[b].height))
    \/ \E p \in Positions :
         /\ gui.selected_connection = p
         /\ gui.selected_block = NoBlock
         /\ double_click_connection(p, gui.connections[p].name, IntText(gui.connections[p].depth),
                                    IntText(gui.connections[p].width),
                                    IntText(gui.connections[p].src_ch_num),
                                    IntText(gui.connections[p].dst_ch_num))

NextSelect ==
    \/ load_button(DesignOne, TRUE)
    \/ Room /\ QuickConnect
    \/ \E b \in BlockList : on_canvas_click(b, NoConn)
    \/ \E p \in Positions : on_canvas_click(NoBlock, p)
    \/ on_canvas_click(NoBlock, NoConn)
    \/ \E b \in BlockList : right_click_block(b, "none", b)
    \/ \E p \in Positions : right_click_connection(p, "none")
    \/ DoubleClick
    \/ \E b \in BlockList :
         edit_selected_block(gui.blk[b].name, gui.blk[b].name, NumberText(b),
                             IntText(gui.blk[b].width),
                             IntText(gui.blk[b].height))
    \/ Budget /\ DeleteBlock
    \/ Budget /\ DeleteConnection
    \/ Budget /\ delete_selected
    \/ \E confirm \in BOOLEAN : new_button(confirm)

SpecSelect == Init /\ [][NextSelect]_vars

----------------------------------------------------------------------------
(* Properties *)

Conn(p) == gui.connections[p]

Touches(c, b) == c.source_block = b \/ c.target_block = b

SamePair(c, d) ==
    {c.source_block, c.target_block} = {d.source_block, d.target_block}

\* the smallest natural number that is not in S
Mex(S) ==
    CHOOSE k \in 0..Cardinality(S) : k \notin S /\ \A j \in 0..(k - 1) : j \in S

\* the connections of the diagram made again, one by one in list order, by
\* FIFOConnection.__init__ without channel arguments on blocks that hold no
\* connection
RECURSIVE Recreate(_, _, _)
Recreate(m, connections, p) ==
    IF p > Len(connections) THEN m
    ELSE Recreate(NewConnectionAuto(m, connections[p].source_block,
                                    connections[p].target_block,
                                    connections[p].name),
                  connections, p + 1)

FromScratch(m) ==
    Recreate([m EXCEPT !.connections = <<>>,
                       !.blk = [b \in BlockIds |->
                                  [m.blk[b] EXCEPT !.connections = <<>>]]],
             m.connections, 1)

Channels(m) ==
    [p \in DOMAIN m.connections |->
       <<m.connections[p].src_ch_num, m.connections[p].dst_ch_num>>]

\* the multiset of the elements of a sequence
BagOf(seq) ==
    [v \in Range(seq) |-> Cardinality({i \in DOMAIN seq : seq[i] = v})]

BlockBag(m) ==
    BagOf([i \in DOMAIN m.blocks |->
             LET block == m.blk[m.blocks[i]]
             IN  <<block.name, block.x, block.y, block.width, block.height,
                   block.number>>])

ConnBag(m) ==
    BagOf([p \in DOMAIN m.connections |->
             LET conn == m.connections[p]
             IN  <<conn.name, m.blk[conn.source_block].name,
                   m.blk[conn.target_block].name, conn.src_ch_num,
                   conn.dst_ch_num, conn.depth, conn.width>>])

UniqueNames(m) ==
    \A i, j \in DOMAIN m.blocks :
        i # j => m.blk[m.blocks[i]].name # m.blk[m.blocks[j]].name

\* C1: whatever operations were performed (creations, deletions, imports,
\* load_json), the connection list of every block holds at most 15 entries.
C1_AtMostFifteenPerBlock ==
    \A b \in BlockIds :
        Len(gui.blk[b].connections) <= MaxConnectionsPerBlock

\* C2: in every reachable state the connections that leave the same block
\* have pairwise distinct src_ch_num, and the connections that enter the same
\* block have pairwise distinct dst_ch_num.
C2_ChannelsDistinctPerBlock ==
    \A p, q \in Positions :
        p # q =>
          /\ Conn(p).source_block = Conn(q).source_block
               => Conn(p).src_ch_num # Conn(q).src_ch_num
          /\ Conn(p).target_block = Conn(q).target_block
               => Conn(p).dst_ch_num # Conn(q).dst_ch_num

\* C3: in every reachable state every connection of the connection list has
\* a source block other than its target block.
C3_SourceIsNotTarget ==
    \A p \in Positions : Conn(p).source_block # Conn(p).target_block

\* C4: after any sequence of UI events the source block and the target block
\* of every connection of the connection list are in the block list.
C4_EndpointsInBlockList ==
    \A p \in Positions :
        /\ Conn(p).source_block \in BlockList
        /\ Conn(p).target_block \in BlockList

\* C5: create_connection_between_blocks(source, target) returns failure
\* whenever source is target or one of the two holds 15 connections (or
\* more), and the refused call changes nothing: not the connection list, not
\* a block's connection list, not a name or channel number of a connection.
C5_RefusedCreateChangesNothing ==
    \A s, t \in BlockList :
        (\/ s = t
         \/ Len(gui.blk[s].connections) >= MaxConnectionsPerBlock
         \/ Len(gui.blk[t].connections) >= MaxConnectionsPerBlock)
          => create_connection_between_blocks(gui, s, t)
               = [m |-> gui, ok |-> FALSE]

\* a create was refused in a diagram where a block holds exactly 15 while
\* another block still has room
C5_RefusedAtCapacity ==
    /\ last.op = "create"
    /\ ~last.ok
    /\ \E b \in BlockList :
         Len(gui.blk[b].connections) = MaxConnectionsPerBlock
    /\ \E b \in BlockList :
         Len(gui.blk[b].connections) < MaxConnectionsPerBlock

\* C6: a connection created without explicit channels from S to T has as
\* src_ch_num the smallest natural number that no other connection leaving S
\* has as src_ch_num, and as dst_ch_num the smallest that no other connection
\* entering T has as dst_ch_num; connections of the other role do not count,
\* and a freed channel number is taken again.
C6_AutoChannelIsSmallestFree ==
    (last.op = "create" /\ last.ok) =>
        LET n == Len(gui.connections)
            c == Conn(n)
            leaving  == {q \in 1..(n - 1) :
                           Conn(q).source_block = c.source_block}
            entering == {q \in 1..(n - 1) :
                           Conn(q).target_block = c.target_block}
        IN  /\ c.src_ch_num = Mex({Conn(q).src_ch_num : q \in leaving})
            /\ c.dst_ch_num = Mex({Conn(q).dst_ch_num : q \in entering})

\* the new connection took source channel 2 of a block whose outgoing
\* connections held the channels 0, 1 and 3
C6_GapFilled ==
    /\ last.op = "create"
    /\ last.ok
    /\ LET n == Len(gui.connections)
       IN  /\ Conn(n).src_ch_num = 2
           /\ {Conn(q).src_ch_num :
                 q \in {r \in 1..(n - 1) :
                          Conn(r).source_block = Conn(n).source_block}}
                = {0, 1, 3}

\* C7: right after a confirmed delete_block(B), B is not in the block list,
\* no connection of the connection list has B as source or target, and the
\* connection list of no remaining block holds a connection that touches B.
C7_DeleteBlockCascades ==
    last.op = "delete_block" =>
        /\ last.a \notin BlockList
        /\ \A p \in Positions : ~Touches(Conn(p), last.a)
        /\ \A b \in BlockList :
             \A i \in DOMAIN gui.blk[b].connections :
                 /\ gui.blk[b].connections[i] \in Positions
                 /\ ~Touches(Conn(gui.blk[b].connections[i]), last.a)

\* a block was deleted together with two or more connections, and other
\* connections remain
C7_CascadeOfTwo ==
    /\ last.op = "delete_block"
    /\ last.n >= 2
    /\ gui.connections # <<>>

\* C8: after reassign_all_channels, for every block B the k-th connection
\* (from 0, in the order of the connection list) that leaves B has
\* src_ch_num = k and the k-th that enters B has dst_ch_num = k, whatever the
\* channel numbers were; these are the channel numbers the same connections
\* get when they are created from scratch in that order.
C8_ReassignNumbersInListOrder ==
    last.op = "reassign" =>
        /\ \A p \in Positions :
             /\ Conn(p).src_ch_num =
                  Cardinality({q \in 1..(p - 1) :
                                 Conn(q).source_block = Conn(p).source_block})
             /\ Conn(p).dst_ch_num =
                  Cardinality({q \in 1..(p - 1) :
                                 Conn(q).target_block = Conn(p).target_block})
        /\ Channels(gui) = Channels(FromScratch(gui))

\* a reassignment changed a channel number in a diagram where two
\* connections leave the same block
C8_ReassignChangedChannels ==
    /\ last.op = "reassign"
    /\ last.n > 0
    /\ \E p, q \in Positions :
         p < q /\ Conn(p).source_block = Conn(q).source_block

\* the name of the k-th connection of a pair
OrdName(k) == IF k = 1 THEN "FIFO" ELSE "FIFO_" \o Str(k)

\* C9: from a block pair without connection and without deletion in
\* between, the k-th connection that create_connection_between_blocks makes
\* between the two blocks, in either direction, is named "FIFO" for k = 1 and
\* "FIFO_k" for k >= 2, whatever is created for other pairs meanwhile.
C9_KthConnectionOfPairIsFifoK ==
    \A p \in Positions :
        Conn(p).ord # 0 => Conn(p).name = OrdName(Conn(p).ord)

\* the second connection of a pair, made in the other direction after a
\* connection of another pair
C9_SecondAfterOtherPair ==
    \E p, q, r \in Positions :
        /\ p < q /\ q < r
        /\ Conn(p).ord = 1
        /\ Conn(r).ord = 2
        /\ Conn(r).source_block = Conn(p).target_block
        /\ Conn(r).target_block = Conn(p).source_block
        /\ ~SamePair(Conn(q), Conn(p))

\* C10: after any sequence of create_connection_between_blocks and
\* delete_connection (no rename, no import) the connections between the same
\* two blocks have pairwise distinct names.
C10_NamesOfPairDistinct ==
    \A p, q \in Positions :
        (p # q /\ SamePair(Conn(p), Conn(q))) => Conn(p).name # Conn(q).name

\* C11: when the block names are unique, save_json followed by load_json of
\* the written file gives the same multiset of blocks (name, x, y, width,
\* height, number) and the same multiset of connections (name, source name,
\* target name, channels, depth, width).
C11_SaveThenLoadKeepsDesign ==
    (last.op = "save_json" /\ UniqueNames(gui)) =>
        LET loaded == load_json(gui, file, TRUE).m
        IN  /\ BlockBag(loaded) = BlockBag(gui)
            /\ ConnBag(loaded) = ConnBag(gui)

\* C12: when load_json is given data that is no design (no "blocks" key),
\* the load ends with an error and the block list, the connection list and
\* the selection are as they were before the call.
C12_InvalidLoadChangesNothing ==
    [][(last'.op = "load_json" /\ last'.code = "invalid") =>
          /\ gui'.blocks = gui.blocks
          /\ gui'.connections = gui.connections
          /\ gui'.selected_block = gui.selected_block
          /\ gui'.selected_connection = gui.selected_connection]_vars

\* the block a name of an import file stands for: the last block of the
\* block list that has the name, NoBlock when there is none
Resolve(m, name) ==
    LET named == {i \in DOMAIN m.blocks : m.blk[m.blocks[i]].name = name}
    IN  IF named = {} THEN NoBlock
        ELSE m.blocks[CHOOSE i \in named : \A j \in named : j <= i]

\* what is expected of the records from the i-th on, when held[b] is the
\* number of entries of the connection list of block b: the sequence of the
\* endpoints <<source, target>> of the records that make a connection
RECURSIVE Expected(_, _, _, _, _, _)
Expected(m, records, i, srcKey, dstKey, held) ==
    IF i > Len(records) THEN <<>>
    ELSE LET rec == records[i]
             s == IF Has(rec, srcKey) /\ Has(rec, dstKey)
                  THEN Resolve(m, rec[srcKey]) ELSE NoBlock
             t == IF Has(rec, srcKey) /\ Has(rec, dstKey)
                  THEN Resolve(m, rec[dstKey]) ELSE NoBlock
         IN  IF \/ s = NoBlock
                \/ t = NoBlock
                \/ held[s] >= MaxConnectionsPerBlock
                \/ held[t] >= MaxConnectionsPerBlock
             THEN Expected(m, records, i + 1, srcKey, dstKey, held)
             ELSE <<<<s, t>>>> \o
                  Expected(m, records, i + 1, srcKey, dstKey,
                           [b \in BlockIds |->
                              held[b] + (IF b = s THEN 1 ELSE 0)
                                      + (IF b = t THEN 1 ELSE 0)])

ExpectedOfFile(m, data) ==
    Expected(m, Records(data), 1,
             IF Has(data, "fifo_infos") THEN "src" ELSE "source_block",
             IF Has(data, "fifo_infos") THEN "dst" ELSE "destination_block",
             [b \in BlockIds |-> Len(m.blk[b].connections)])

\* C13: in import_connections_json a record whose source or destination
\* name matches no block, or whose endpoint is full when the record is
\* reached, makes no connection and adds one message to the error list;
\* every other well-formed record makes exactly one connection;
\* imported_count + skipped_count is the number of records and
\* imported_count is the number of connections added to the diagram.
C13_ImportCountsEveryRecord ==
    [][(last'.op = "import_connections" /\ last'.ok) =>
          LET made == ExpectedOfFile(gui, file')
              old  == Len(gui.connections)
          IN  /\ last'.n + last'.a = Len(Records(file'))
              /\ last'.n = Len(made)
              /\ last'.errors = last'.a
              /\ last'.added = last'.n
              /\ Len(gui'.connections) = old + Len(made)
              /\ \A k \in DOMAIN made :
                    /\ gui'.connections[old + k].source_block = made[k][1]
                    /\ gui'.connections[old + k].target_block = made[k][2]
              /\ \A q \in 1..old :
                    gui'.connections[q] = gui.connections[q]]_vars

\* an import made two connections and skipped three records, one of them
\* because an earlier record of the file had filled the block
C13_ImportSkippedThree ==
    /\ last.op = "import_connections"
    /\ last.n = 2
    /\ last.a = 3
    /\ file = ImportMixed
    /\ \E b \in BlockList :
         Len(gui.blk[b].connections) = MaxConnectionsPerBlock

\* C14: every import path attempts each record on its own: a record that
\* fails does not keep the later records from being tried.  For load_json:
\* after a load that went past its key check, every complete record of
\* fifo_infos whose blocks the file has is a connection of the diagram.
C14_LoadAttemptsEveryRecord ==
    (/\ last.op = "load_json"
     /\ last.code # "invalid"
     /\ last.confirm
     /\ Has(file, "fifo_infos")) =>
        \A i \in DOMAIN file.fifo_infos :
          LET rec == file.fifo_infos[i]
              names == {file.blocks[k].name : k \in DOMAIN file.blocks}
          IN  (/\ {"name", "src", "dst", "qd", "width"} \subseteq DOMAIN rec
               /\ rec.src \in names
               /\ rec.dst \in names) =>
                 \E p \in Positions :
                   /\ gui.connections[p].name = rec.name
                   /\ gui.blk[gui.connections[p].source_block].name = rec.src
                   /\ gui.blk[gui.connections[p].target_block].name = rec.dst

\* the records of a file are complete but for the channel numbers, and
\* every name is one of names
CompleteButChannels(fifo_infos, names) ==
    \A i \in DOMAIN fifo_infos :
      /\ {"name", "src", "dst", "qd", "width"} \subseteq DOMAIN fifo_infos[i]
      /\ fifo_infos[i].src \in names
      /\ fifo_infos[i].dst \in names

\* C15: on the import paths the connections carry the src_ch_num and
\* dst_ch_num of their records, and 0 where a record has no channel field.
\* For load_json and import_fifo_format, which start from an empty diagram:
\* after a file of complete records (channel fields aside), the i-th
\* connection has the channels of the i-th record, 0 for a missing one.
C15_ImportKeepsRecordChannels ==
    (/\ last.op \in {"load_json", "import_fifo_format"}
     /\ last.code # "invalid"
     /\ last.confirm
     /\ Has(file, "fifo_infos")
     /\ CompleteButChannels(
           file.fifo_infos,
           IF last.op = "load_json"
           THEN {file.blocks[k].name : k \in DOMAIN file.blocks}
           ELSE Range(NameOrder))
     /\ Len(file.fifo_infos) < MaxConnectionsPerBlock) =>
        /\ Len(gui.connections) = Len(file.fifo_infos)
        /\ \A i \in DOMAIN file.fifo_infos :
              /\ gui.connections[i].src_ch_num =
                    Get(file.fifo_infos[i], "src_ch_num", 0)
              /\ gui.connections[i].dst_ch_num =
                    Get(file.fifo_infos[i], "dst_ch_num", 0)

\* a nested connection record of the old design format under the field
\* names of fifo_infos, src being the name of the block it is nested in
CanonNested(conn_data, src) ==
    LET key(k) == IF k = "target" THEN "dst"
                  ELSE IF k = "depth" THEN "qd" ELSE k
        old(k) == IF k = "dst" THEN "target"
                  ELSE IF k = "qd" THEN "depth" ELSE k
    IN  [k \in {key(j) : j \in DOMAIN conn_data} \cup {"src"} |->
           IF k = "src" THEN src ELSE conn_data[old(k)]]

RECURSIVE Flatten(_, _)
Flatten(blocks_data, i) ==
    IF i > Len(blocks_data) THEN <<>>
    ELSE LET block_data == blocks_data[i]
             nested == Get(block_data, "connections", <<>>)
         IN  [j \in DOMAIN nested |-> CanonNested(nested[j], block_data.name)]
               \o Flatten(blocks_data, i + 1)

\* the fifo_infos file with the values of a design file of the old format
CanonDesign(design_data) ==
    [blocks |-> [i \in DOMAIN design_data.blocks |->
                   [k \in DOMAIN design_data.blocks[i] \ {"connections"} |->
                      design_data.blocks[i][k]]],
     fifo_infos |-> Flatten(design_data.blocks, 1)]

\* the fifo_infos file with the values of a connection file under the old
\* field names
CanonImport(data) ==
    LET names == [source_block |-> "src", destination_block |-> "dst",
                  fifo_name |-> "name", queue_depth |-> "qd",
                  data_width |-> "width", source_channel |-> "src_ch_num",
                  destination_channel |-> "dst_ch_num"]
    IN  [fifo_infos |->
           [i \in DOMAIN data.connections |->
              LET conn_data == data.connections[i]
              IN  [k \in {names[j] : j \in DOMAIN conn_data} |->
                     conn_data[CHOOSE j \in DOMAIN conn_data : names[j] = k]]]]

\* C16: loading a file of the old shape (no fifo_infos; the connections
\* nested in the blocks, under the old field names) leaves the same blocks
\* and the same multiset of connections (name, source, target, channels,
\* depth, width) as loading, in the same diagram, the fifo_infos file that
\* holds the same values; and so does importing a connection file under the
\* old field names.
C16_LegacyLoadsAsCanonical ==
    [][/\ (/\ last'.op = "load_json"
            /\ last'.code # "invalid"
            /\ ~Has(file', "fifo_infos")) =>
              LET canon == load_json(gui, CanonDesign(file'), last'.confirm).m
              IN  /\ BlockBag(gui') = BlockBag(canon)
                  /\ ConnBag(gui') = ConnBag(canon)
       /\ (/\ last'.op = "import_connections"
            /\ last'.ok
            /\ ~Has(file', "fifo_infos")) =>
              LET canon == import_connections_json(gui, CanonImport(file')).m
              IN  /\ BlockBag(gui') = BlockBag(canon)
                  /\ ConnBag(gui') = ConnBag(canon)]_vars

\* a design of the old format was loaded and gave two connections, one of
\* them with the channel numbers of its record and one with none in it
C16_LegacyLoadedTwo ==
    /\ last.op = "load_json"
    /\ file = LegacyAB
    /\ Len(gui.connections) = 2
    /\ gui.connections[1].src_ch_num = 2
    /\ gui.connections[2].src_ch_num = 0

\* the texts of the block dialog are ones the dialog refuses
BlockTextsRefused(args) ==
    \/ strip(args.name) = ""
    \/ args.number.kind = "junk"
    \/ args.number.kind = "int" /\ args.number.v <= 0
    \/ args.width.kind # "int"
    \/ args.height.kind # "int"
    \/ args.width.v <= 0
    \/ args.height.v <= 0

\* the texts of the connection dialog are ones the dialog refuses
ConnectionTextsRefused(args) ==
    \/ strip(args.name) = ""
    \/ \E t \in {args.depth, args.width, args.src_ch, args.dst_ch} :
         t.kind # "int"
    \/ args.depth.v <= 0
    \/ args.width.v <= 0
    \/ args.src_ch.v < 0
    \/ args.dst_ch.v < 0

\* C17: an edit that the validation refuses changes nothing.  In the
\* connection dialog an empty name, a depth or width <= 0 or a negative
\* channel leaves name, depth, width, src_ch_num and dst_ch_num of the
\* connection as they were; in the block dialog an empty name, a number
\* <= 0 or a width or height <= 0 leaves name, number, width and height of
\* the block as they were.
C17_RefusedEditChangesNothing ==
    [][/\ (last'.op = "edit_block" /\ BlockTextsRefused(last'.args)) =>
              /\ gui'.blk = gui.blk
              /\ gui'.connections = gui.connections
       /\ (/\ last'.op = "edit_connection_texts"
            /\ ConnectionTextsRefused(last'.args)) =>
              /\ gui'.blk = gui.blk
              /\ gui'.connections = gui.connections]_vars

\* the block dialog has just refused a number of 0 typed next to a good
\* name, width and height, on a block edited before
C17_RefusedNumberAfterEdit ==
    /\ last.op = "edit_block"
    /\ strip(last.args.name) = "X"
    /\ last.args.number = IntText(0)
    /\ last.args.width = IntText(40)
    /\ last.args.height = IntText(90)
    /\ gui.blk[last.a].number = 7
    /\ gui.blk[last.a].width = 50

\* the anchors of a drawn connection, times PathScale
Anchors(drawn) ==
    LET k == drawn.connection_index
        n == drawn.total_connections
        start == get_connection_point(drawn.source, drawn.target, k, n)
        end == get_connection_point(drawn.target, drawn.source, k, n)
    IN  <<800 * start[1], 800 * start[2], 800 * end[1], 800 * end[2]>>

\* the control point of a 21-point quadratic curve, from its ends and its
\* middle point (t = 1/2): P1 = 2 P(1/2) - (P0 + P2)/2; its two coordinates
\* times twice the scale of the path
ControlPoint2(path) ==
    <<4 * path[21] - path[1] - path[41], 4 * path[22] - path[2] - path[42]>>

\* C18: a connection drawn at position index of total connections of its
\* block pair has a straight path of 2 points when total = 1 or index = 0;
\* otherwise a path of 21 points from anchor to anchor whose control point
\* is the middle of the anchors moved along the axis that is not the
\* dominant one by 30 + 15 * index: added when index is odd, subtracted
\* when it is even.
C18_PathStraightOrCurvedByIndex ==
    \A p \in Positions :
      LET drawn == gui.connections[p].drawn
          k == drawn.connection_index
          S == PathScale(drawn.total_connections)
          path == curve_points(drawn)
          a == Anchors(drawn)
          moved == IF k % 2 = 1 THEN 30 + 15 * k ELSE -(30 + 15 * k)
          flat == Abs(a[3] - a[1]) > Abs(a[4] - a[2])
      IN  IF drawn.total_connections = 1 \/ k = 0
          THEN path = a
          ELSE /\ Len(path) = 2 * 21
               /\ <<path[1], path[2], path[41], path[42]>> = a
               /\ ControlPoint2(path) =
                     IF flat
                     THEN <<a[1] + a[3], a[2] + a[4] + 2 * S * moved>>
                     ELSE <<a[1] + a[3] + 2 * S * moved, a[2] + a[4]>>

\* three connections of one pair are drawn at the indexes 0, 1 and 2 of 3:
\* the one at 1 and the one at 2 are bent to opposite sides, the one at 2
\* farther than the one at 1
C18_ThreeOfOnePair ==
    \E p, q, r \in Positions :
      LET P == gui.connections[p].drawn
          Q == gui.connections[q].drawn
          R == gui.connections[r].drawn
          dq == ControlPoint2(curve_points(Q))[2]
                  - (Anchors(Q)[2] + Anchors(Q)[4])
          dr == ControlPoint2(curve_points(R))[2]
                  - (Anchors(R)[2] + Anchors(R)[4])
      IN  /\ P.total_connections = 3 /\ P.connection_index = 0
          /\ Q.total_connections = 3 /\ Q.connection_index = 1
          /\ R.total_connections = 3 /\ R.connection_index = 2
          /\ Len(curve_points(P)) = 4
          /\ dq > 0
          /\ dr < 0
          /\ -dr > dq

\* C19: in every reachable state, after any creations, deletions,
\* reassignments and imports, of the connections of one unordered block
\* pair the first in the order of the connection list of the diagram has a
\* straight path of 2 points and every other one a path of 21 points.
C19_FirstOfPairStraightOthersCurved ==
    \A p \in Positions :
      LET first == \A q \in 1..(p - 1) :
                     ~SamePair(gui.connections[q], gui.connections[p])
          path == curve_points(gui.connections[p].drawn)
      IN  Len(path) = IF first THEN 2 * 2 ELSE 2 * 21

\* the first connection of a pair of three was deleted: the one made
\* second, which was curved, is the first now and is straight, and the one
\* made third is curved
C19_NewFirstAfterDelete ==
    /\ last.op = "delete_connection"
    /\ Len(gui.connections) = 2
    /\ SamePair(gui.connections[1], gui.connections[2])
    /\ gui.connections[1].name = "FIFO_2"
    /\ gui.connections[2].name = "FIFO_3"
    /\ Len(curve_points(gui.connections[1].drawn)) = 4
    /\ Len(curve_points(gui.connections[2].drawn)) = 42

\* a connection without what draw stored for it
Undrawn(c) == [c EXCEPT !.drawn = NotDrawn]

\* the connection at position p of the diagram m is the one that is
\* missing in the diagram n
Missing(m, n, p) ==
    /\ p \in DOMAIN m.connections
    /\ Len(n.connections) = Len(m.connections) - 1
    /\ \A q \in DOMAIN n.connections :
          Undrawn(n.connections[q]) =
            [Undrawn(m.connections[IF q < p THEN q ELSE q + 1])
               EXCEPT !.ord = n.connections[q].ord]

\* what is drawn for the connection at position q of m was computed from
\* the index and the total the connection has among the connections of
\* its pair now, and from the geometry its blocks have now
DrawnNow(m, q) ==
    LET c == m.connections[q]
        pair == {r \in DOMAIN m.connections : SamePair(m.connections[r], c)}
        before == {r \in pair : r < q}
        loop == IF c.source_block = c.target_block THEN 2 ELSE 1
    IN  /\ c.drawn.connection_index = loop * Cardinality(before)
        /\ c.drawn.total_connections = loop * Cardinality(pair)
        /\ c.drawn.source = Geometry(m, c.source_block)
        /\ c.drawn.target = Geometry(m, c.target_block)

\* C20: when create_connection_between_blocks or delete_connection has
\* completed, every connection that remains between the two blocks of the
\* connection made or deleted has anchors and path computed with the index
\* it has now and the total the pair has now.
C20_PairRedrawnAfterCreateAndDelete ==
    [][/\ (last'.op = "create" /\ last'.ok) =>
              \A q \in DOMAIN gui'.connections :
                SamePair(gui'.connections[q],
                         gui'.connections[Len(gui'.connections)]) =>
                  DrawnNow(gui', q)
       /\ last'.op = "delete_connection" =>
              \A p \in DOMAIN gui.connections :
                Missing(gui, gui', p) =>
                  \A q \in DOMAIN gui'.connections :
                    SamePair(gui'.connections[q], gui.connections[p]) =>
                      DrawnNow(gui', q)]_vars

\* a third connection was made by hand for a pair whose first two were
\* imported: the first one, drawn by its constructor as the only one of the
\* pair, is drawn as one of 3 now, and the new one at index 2
C20_SecondMadeAfterImport ==
    /\ last.op = "create"
    /\ last.ok
    /\ Len(gui.connections) = 3
    /\ \A q \in 1..3 : SamePair(gui.connections[q], gui.connections[1])
    /\ gui.connections[1].name = "P1"
    /\ gui.connections[1].drawn.total_connections = 3
    /\ gui.connections[3].drawn.connection_index = 2

\* C21: after a confirmed delete_connection(c), c is in the connection
\* list of neither of its blocks nor in the connection list of the
\* diagram; every other connection is in the lists it was in, in the order
\* it had, with its endpoints, name, depth, width and channel numbers.
C21_DeleteRemovesOnlyTheConnection ==
    [][last'.op = "delete_connection" =>
         LET p == last'.a
             was(q) == IF q < p THEN q ELSE q + 1
         IN  /\ Len(gui'.connections) = Len(gui.connections) - 1
             /\ \A q \in DOMAIN gui'.connections :
                   LET c == gui'.connections[q]
                       d == gui.connections[was(q)]
                   IN  /\ c.source_block = d.source_block
                       /\ c.target_block = d.target_block
                       /\ c.name = d.name
                       /\ c.depth = d.depth
                       /\ c.width = d.width
                       /\ c.src_ch_num = d.src_ch_num
                       /\ c.dst_ch_num = d.dst_ch_num
             /\ \A b \in BlockIds :
                   LET old == gui.blk[b].connections
                       new == gui'.blk[b].connections
                       kept == SelectSeq(old, LAMBDA x : x # p)
                   IN  b \in Referenced(gui') =>
                         /\ Len(new) = Len(kept)
                         /\ \A i \in DOMAIN new : was(new[i]) = kept[i]]_vars

\* the second of three connections was deleted, and one of the two that
\* are left is a connection of another pair
C21_DeletedTheMiddleOne ==
    /\ last.op = "delete_connection"
    /\ last.a = 2
    /\ Len(gui.connections) = 2
    /\ ~SamePair(gui.connections[1], gui.connections[2])

\* C22: when the point of a connect-drag release lies in several blocks, the
\* connection made goes to the block inserted last among those that contain
\* the point
C22_ReleaseTargetIsLastInserted ==
    [][\A pt \in HitPoints :
         (release_at(pt[1], pt[2]) /\ last'.op = "create" /\ last'.ok) =>
           gui'.connections[Len(gui'.connections)].target_block
             = LastBlockAt(gui, pt[1], pt[2])]_vars

\* the point (px, py) is within tolerance of the segment from (x1, y1) to
\* (x2, y2): it is that near to one of the two ends, or its foot on the line
\* falls between the ends and it is that near to the line
WithinOfSegment(px, py, x1, y1, x2, y2, tolerance) ==
    LET A == Big(px - x1)
        B == Big(py - y1)
        C == Big(x2 - x1)
        D == Big(y2 - y1)
        E == Big(px - x2)
        F == Big(py - y2)
        tol_sq == BigMul(Big(tolerance), Big(tolerance))
        along == BigAdd(BigMul(A, C), BigMul(B, D))
        across == BigSub(BigMul(A, D), BigMul(B, C))
        length_sq == BigAdd(BigMul(C, C), BigMul(D, D))
    IN  \/ BigLeq(BigAdd(BigMul(A, A), BigMul(B, B)), tol_sq)
        \/ BigLeq(BigAdd(BigMul(E, E), BigMul(F, F)), tol_sq)
        \/ /\ BigLeq(Big(0), along)
           /\ BigLeq(along, length_sq)
           /\ BigLeq(BigMul(across, across), BigMul(tol_sq, length_sq))

\* the stored polyline of the connection a contains_point call was about
AskedPath == curve_points(gui.connections[last.a].drawn)

AskedScale == PathScale(gui.connections[last.a].drawn.total_connections)

\* C23: contains_point answers True exactly when the point is within the
\* tolerance of some segment of the stored polyline (the one segment of a
\* straight path, any of the 20 of a curve); the midpoint of a straight
\* segment matches, and a point tolerance + 1 beside a straight horizontal
\* segment, between its ends, does not
C23_NearExactlyWithinTolerance ==
    last.op = "contains_point" =>
      LET S == AskedScale
          points == AskedPath
          segments == 1..((Len(points) \div 2) - 1)
      IN  /\ Len(points) \in {4, 42}
          /\ last.ok =
               \E k \in segments :
                 WithinOfSegment(S * last.x, S * last.y,
                                 points[2 * k - 1], points[2 * k],
                                 points[2 * k + 1], points[2 * k + 2],
                                 S * last.n)
          /\ (/\ Len(points) = 4
              /\ 2 * S * last.x = points[1] + points[3]
              /\ 2 * S * last.y = points[2] + points[4]) => last.ok
          /\ (/\ Len(points) = 4
              /\ points[2] = points[4]
              /\ points[1] < S * last.x
              /\ S * last.x < points[3]
              /\ Abs(S * last.y - points[2]) = S * (last.n + 1)) => ~last.ok

\* contains_point said True for a point beside the bend of a curved
\* connection, farther than the tolerance from the straight line between
\* its two ends
C23_HitOnTheBend ==
    /\ last.op = "contains_point"
    /\ last.ok
    /\ Len(AskedPath) = 42
    /\ ~WithinOfSegment(AskedScale * last.x, AskedScale * last.y,
                        AskedPath[1], AskedPath[2], AskedPath[41],
                        AskedPath[42], AskedScale * last.n)

\* the first block of the list that bears the name
FirstNamed(m, name) ==
    m.blocks[Min({i \in DOMAIN m.blocks : m.blk[m.blocks[i]].name = name})]

\* C24: a connection made from a file record is attached to the first block
\* of the list that bears the name the record gives, also when several
\* blocks bear it
C24_NameResolvesToFirstBlock ==
    \A p \in Positions :
      /\ Conn(p).source_block
           = FirstNamed(gui, gui.blk[Conn(p).source_block].name)
      /\ Conn(p).target_block
           = FirstNamed(gui, gui.blk[Conn(p).target_block].name)

\* C25: every block of the diagram is at least 50 wide and 30 high
C25_BlocksAtLeastMinimumSize ==
    \A b \in BlockList : gui.blk[b].width >= 50 /\ gui.blk[b].height >= 30

\* the horizontal extents of the two blocks intersect
HorizontalOverlap(self, other_block) ==
    /\ other_block.x <= self.x + self.width
    /\ self.x <= other_block.x + other_block.width

\* the anchor lies on the top side (other above) or the bottom side of self
OnTopOrBottom(self, other_block, k, n) ==
    get_connection_point(self, other_block, k, n)[2]
      = AnchorScale(n) * (IF other_block.y < self.y THEN self.y
                          ELSE self.y + self.height)

\* C26: at both ends of every drawn connection, the anchor is on the top or
\* bottom side of the block (top when the other block is higher) whenever
\* the other block overlaps it horizontally, and on the left or right side
\* only when the other block lies entirely to its left or right
C26_OverlappingBlocksAttachTopOrBottom ==
    \A p \in Positions :
      LET d == Conn(p).drawn
          k == d.connection_index
          n == d.total_connections
      IN  /\ HorizontalOverlap(d.source, d.target)
               => OnTopOrBottom(d.source, d.target, k, n)
          /\ HorizontalOverlap(d.target, d.source)
               => OnTopOrBottom(d.target, d.source, k, n)

\* the anchors of the total places of one side of the block self, facing
\* other_block, are spread as the window min(0.6 * side, 10 * total) says
SpreadOnSide(self, other_block, total) ==
    LET U == AnchorScale(total)
        \* the middle of the chosen side, times 10
        middle == get_connection_point(self, other_block, 0, 1)
        upright == middle[1] \in {10 * self.x, 10 * (self.x + self.width)}
        along == IF upright THEN 2 ELSE 1
        across == IF upright THEN 1 ELSE 2
        side_length == IF upright THEN self.height ELSE self.width
        first_corner == IF upright THEN self.y ELSE self.x
        \* five times R
        R5 == IF 3 * side_length < 50 * total THEN 3 * side_length
              ELSE 50 * total
        at(index) == get_connection_point(self, other_block, index, total)
    IN  \A index \in 0..(total - 1) :
          /\ 10 * at(index)[across] = U * middle[across]
          \* offset = -R/2 + index * R / (total - 1)
          /\ 10 * at(index)[along] - U * middle[along]
               = 10 * R5 * (2 * index - (total - 1))
          \* evenly spaced
          /\ index >= 2 =>
               at(index)[along] - at(index - 1)[along]
                 = at(index - 1)[along] - at(index - 2)[along]
          \* symmetric about the middle
          /\ 10 * (at(index)[along] + at(total - 1 - index)[along])
               = 2 * U * middle[along]
          \* at least 0.2 * side_length from both corners
          /\ 5 * (at(index)[along] - U * first_corner) >= U * side_length
          /\ 5 * (U * (first_corner + side_length) - at(index)[along])
               >= U * side_length

\* C27: for every drawn connection of a pair with more than one connection,
\* at both ends and for every index 0..total-1, the anchor lies on the chosen
\* side at offset -R/2 + index * R / (total - 1) from its middle, with
\* R = min(0.6 * side length, 10 * total): evenly spaced, symmetric, and at
\* least 0.2 * side length from both corners
C27_AnchorsSpreadInWindow ==
    \A p \in Positions :
      LET d == Conn(p).drawn
      IN  d.total_connections > 1 =>
            /\ d.connection_index \in 0..(d.total_connections - 1)
            /\ SpreadOnSide(d.source, d.target, d.total_connections)
            /\ SpreadOnSide(d.target, d.source, d.total_connections)

\* a connection of a pair of two or more is drawn on the right side of a
\* block so low that the window is 0.6 of the side, not 10 * total
C27_WindowLimitedBySide ==
    \E p \in Positions :
      LET d == Conn(p).drawn
      IN  /\ d.total_connections > 1
          /\ d.target.x > d.source.x + d.source.width
          /\ 3 * d.source.height < 50 * d.total_connections

\* the block names the records of the imported file refer to
NamesOfFile ==
    UNION {{file.fifo_infos[i].src, file.fifo_infos[i].dst} :
             i \in DOMAIN file.fifo_infos}

\* C28: after import_fifo_format of records that name n distinct blocks the
\* diagram holds exactly n blocks, one per name, the i-th name in sorted
\* order at column i mod c and row i div c of a grid of c = ceil(sqrt(n))
\* columns, pitch 200 by 150 from (50, 50); no two blocks share a cell and
\* there are at most c rows
C28_ImportLaysNamesOnGrid ==
    (last.op = "import_fifo_format" /\ last.code = "loaded") =>
      LET n == Cardinality(NamesOfFile)
          c == CeilSqrt(n)
          sorted_names == SelectSeq(NameOrder, LAMBDA name : name \in NamesOfFile)
      IN  /\ Len(gui.blocks) = n
          /\ \A i \in 0..(n - 1) :
               /\ gui.blk[gui.blocks[i + 1]].name = sorted_names[i + 1]
               /\ gui.blk[gui.blocks[i + 1]].x = 50 + (i % c) * 200
               /\ gui.blk[gui.blocks[i + 1]].y = 50 + (i \div c) * 150
          /\ \A i, j \in DOMAIN gui.blocks :
               (/\ gui.blk[gui.blocks[i]].x = gui.blk[gui.blocks[j]].x
                /\ gui.blk[gui.blocks[i]].y = gui.blk[gui.blocks[j]].y) => i = j
          /\ \A b \in BlockList : gui.blk[b].y < 50 + c * 150

\* the same, for an import into an empty design or with the question of
\* new_design answered Yes
ImportLaysNamesOnGridWhenCleared ==
    (last.op = "import_fifo_format" /\ last.confirm) => C28_ImportLaysNamesOnGrid

\* what draw would read for the connection at position p in this state
WouldDraw(p) == draw(gui, p).connections[p].drawn

\* C29: the index draw takes from the source block's list is the position
\* of the connection among the connections of its unordered pair in the
\* order of the diagram list, counted from 0, and the total is the number
\* of connections of that pair in the diagram list
C29_DrawIndexIsDiagramOrder ==
    \A p \in Positions :
      LET pair == {q \in Positions : SamePair(Conn(q), Conn(p))}
      IN  /\ WouldDraw(p).total_connections = Cardinality(pair)
          /\ WouldDraw(p).connection_index
               = Cardinality({q \in pair : q < p})

\* the same, for the connections that join two different blocks
DrawIndexIsDiagramOrderOffLoops ==
    \A p \in Positions :
      Conn(p).source_block # Conn(p).target_block =>
        LET pair == {q \in Positions : SamePair(Conn(q), Conn(p))}
        IN  /\ WouldDraw(p).total_connections = Cardinality(pair)
            /\ WouldDraw(p).connection_index
                 = Cardinality({q \in pair : q < p})

\* C30: the label of a straight connection is at the middle of the segment
\* moved 15 across the dominant axis (up for a flat line, to the right for
\* an upright one); the label of a curved connection of index i is at the
\* middle of the line between its ends moved 20 + 8 * i along the axis, and
\* to the side (odd i positive, even i negative), of its control point
C30_LabelBesideTheLine ==
    \A p \in Positions :
      LET drawn == Conn(p).drawn
          i == drawn.connection_index
          S == PathScale(drawn.total_connections)
          path == curve_points(drawn)
          \* twice the label position, the middle and the control point,
          \* times S
          label == <<800 * label_position(drawn)[1],
                     800 * label_position(drawn)[2]>>
          middle == <<path[1] + path[Len(path) - 1], path[2] + path[Len(path)]>>
          flat == Abs(path[Len(path) - 1] - path[1])
                    > Abs(path[Len(path)] - path[2])
      IN  drawn # NotDrawn =>
            IF Len(path) = 4
            THEN label = IF flat THEN <<middle[1], middle[2] - 2 * S * 15>>
                         ELSE <<middle[1] + 2 * S * 15, middle[2]>>
            ELSE \E axis \in {1, 2} :
                   LET other == 3 - axis
                       bend == ControlPoint2(path)[axis] - middle[axis]
                       move == label[axis] - middle[axis]
                   IN  /\ ControlPoint2(path)[other] = middle[other]
                       /\ label[other] = middle[other]
                       /\ bend # 0
                       /\ Abs(move) = 2 * S * (20 + 8 * i)
                       /\ (move > 0) = (bend > 0)
                       /\ (move > 0) = (i % 2 = 1)

\* the third connection of a pair of blocks one below the other is drawn:
\* a curve of even index, bent and labelled on the negative side
C30_EvenCurveBetweenStackedBlocks ==
    \E p \in Positions :
      /\ Conn(p).drawn.connection_index = 2
      /\ Conn(p).drawn.source.x = Conn(p).drawn.target.x

\* the geometry stored for the connection at position p is the one draw
\* would compute in this state: same index, same anchors (compared across
\* the two scales), and a total that is not smaller than the current one
StoredGeometryIsCurrent(p) ==
    LET stored == Conn(p).drawn
        now == WouldDraw(p)
        U == AnchorScale(stored.total_connections)
        V == AnchorScale(now.total_connections)
        ends(d) == <<get_connection_point(d.source, d.target,
                                          d.connection_index,
                                          d.total_connections),
                     get_connection_point(d.target, d.source,
                                          d.connection_index,
                                          d.total_connections)>>
    IN  /\ stored.connection_index = now.connection_index
        /\ stored.total_connections >= now.total_connections
        /\ \A end \in {1, 2} : \A c \in {1, 2} :
             V * ends(stored)[end][c] = U * ends(now)[end][c]

\* C31: when reassign_all_channels, import_connections_json, load_json or
\* import_fifo_format has completed, the anchors and path stored for every
\* connection are those of its current index and of the current total of
\* its pair, and none is left with the geometry of a smaller total
C31_GeometryCurrentAfterBulkOperations ==
    last.op \in {"reassign", "import_connections", "load_json",
                 "import_fifo_format"} =>
      \A p \in Positions : StoredGeometryIsCurrent(p)

\* how many entries of the connection list of block b are the connection
\* at position p
Entries(b, p) ==
    Cardinality({i \in DOMAIN gui.blk[b].connections :
                   gui.blk[b].connections[i] = p})

\* C32: every connection of the diagram is exactly once in the list of its
\* source block and exactly once in the list of its target block, and every
\* entry of the list of a block of the diagram is a connection of the
\* diagram that has the block as source or target
C32_ListsMirrorTheDiagram ==
    /\ \A p \in Positions :
         /\ Entries(Conn(p).source_block, p) = 1
         /\ Entries(Conn(p).target_block, p) = 1
    /\ \A b \in BlockList :
         \A i \in DOMAIN gui.blk[b].connections :
           /\ gui.blk[b].connections[i] \in Positions
           /\ b \in {Conn(gui.blk[b].connections[i]).source_block,
                     Conn(gui.blk[b].connections[i]).target_block}

\* the same, the connections from a block to itself left aside
ListsMirrorTheDiagramOffLoops ==
    /\ \A p \in Positions :
         Conn(p).source_block # Conn(p).target_block =>
           /\ Entries(Conn(p).source_block, p) = 1
           /\ Entries(Conn(p).target_block, p) = 1
    /\ \A b \in BlockList :
         \A i \in DOMAIN gui.blk[b].connections :
           /\ gui.blk[b].connections[i] \in Positions
           /\ b \in {Conn(gui.blk[b].connections[i]).source_block,
                     Conn(gui.blk[b].connections[i]).target_block}

\* what a reassignment must leave alone, in the order of the diagram list
Wiring(m) ==
    [p \in DOMAIN m.connections |->
       <<m.connections[p].source_block, m.connections[p].target_block,
         m.connections[p].name, m.connections[p].depth,
         m.connections[p].width>>]

\* the connection list of every block
Attachments(m) == [b \in BlockIds |-> m.blk[b].connections]

\* C33: reassign_all_channels changes no connection's endpoints, name,
\* depth or width and adds or removes none, and applying it once more gives
\* the same channel numbers, the same order of the diagram list and the
\* same order of every block's list
C33_ReassignIsIdempotent ==
    [][last'.op = "reassign" =>
         LET once == gui'
             twice == reassign_all_channels(gui')
         IN  /\ Wiring(once) = Wiring(gui)
             /\ Channels(twice) = Channels(once)
             /\ Wiring(twice) = Wiring(once)
             /\ Attachments(twice) = Attachments(once)]_vars

\* a reassignment has renumbered connections of three or more, among them
\* two that run opposite ways between the same blocks
C33_ReassignedBothWays ==
    /\ last.op = "reassign"
    /\ last.n > 0
    /\ Len(gui.connections) >= 3
    /\ \E p, q \in Positions :
         /\ Conn(p).source_block = Conn(q).target_block
         /\ Conn(p).target_block = Conn(q).source_block
         /\ Conn(p).source_block # Conn(p).target_block

\* C34: selected_block is unset or a block of the block list, and
\* selected_connection is unset or a connection of the connection list
C34_SelectionIsInTheDiagram ==
    /\ gui.selected_block \in BlockList \cup {NoBlock}
    /\ gui.selected_connection \in Positions \cup {NoConn}

\* a deletion has removed the selected block from a diagram that keeps
\* other blocks
C34_SelectedBlockDeleted ==
    /\ last.op = "delete_block"
    /\ gui.selected_block = NoBlock
    /\ gui.blocks # <<>>

\* C35: selected_block and selected_connection are never both set
C35_OneSelectionAtATime ==
    ~(gui.selected_block # NoBlock /\ gui.selected_connection # NoConn)

\* the same right after a left or a right click
OneSelectionAfterAClick ==
    [][(\/ \E b \in BlockList \cup {NoBlock} :
            \E p \in Positions \cup {NoConn} : on_canvas_click(b, p)
        \/ \E b \in BlockList : right_click_block(b, "none", b)
        \/ \E p \in Positions : right_click_connection(p, "none"))
         => ~(gui'.selected_block # NoBlock
                /\ gui'.selected_connection # NoConn)]_vars

\* C36: a block's selected flag is set only if the block is selected_block,
\* and a connection's selected flag only if it is selected_connection
C36_FlagsFollowTheSelection ==
    /\ \A b \in BlockList : gui.blk[b].selected => gui.selected_block = b
    /\ \A p \in Positions : Conn(p).selected => gui.selected_connection = p

\* the element that is selected bears its flag
SelectedIsFlagged ==
    /\ gui.selected_block \in BlockList => gui.blk[gui.selected_block].selected
    /\ gui.selected_connection \in Positions
         => Conn(gui.selected_connection).selected

====
